---- MODULE Spec2Model ----
(***************************************************************************)
(* Camera-geometry assembly of lsst.afw.cameraGeom.utils: the factory      *)
(* functions makeCcd, makeRaft, makeCamera and makeDefects, which read a   *)
(* policy (a tree of configuration records) and call the constructors of   *)
(* the native geometry classes.                                            *)
(*                                                                         *)
(* A policy is a record; an array-valued name is a sequence; a name that   *)
(* Policy.exists() reports absent is a field missing from the record.      *)
(* A call is one atomic action: the whole function body runs, and `ret'    *)
(* holds what the caller observes afterwards (the value returned or the    *)
(* exception raised, the info dict as the call left it, what was printed   *)
(* on stderr).                                                             *)
(***************************************************************************)
EXTENDS Integers, Sequences, FiniteSets, TLC

VARIABLES geomPolicy,   \* the policy handed to the factory functions
          force,        \* the module flag `force'
          ret,          \* the outcome of the last call
          exposureInfo, \* the components of an ExposureInfo, by key
          infoCalls,    \* the calls made on the ExposureInfo, in order
          heap,         \* the buffers and maps that Exposures refer to
          handles,      \* an Exposure, its copy and a copy of its info
          expCall,      \* the last call made through a handle
          rand,         \* a Random generator
          randCopy,     \* the generator deepCopy() returned
          randLog,      \* the state saved and the values drawn since
          warpingControl, \* a WarpingControl: its two kernel names
          warpCall,     \* the outcome of the last call of the warping code
          maskPlanes,   \* the mask plane registry of a Mask
          maskCall,     \* the last call on the registry and its outcome
          csSet,        \* a Python set of CameraSys objects
          sysCall,      \* the last CameraSys operation and its outcome
          warningsState, \* the warnings module: its filter, what it showed
          filterCall    \* the last construction of a Filter, step by step

geomVars == <<geomPolicy, force, ret>>

infoVars == <<exposureInfo, infoCalls>>

copyVars == <<heap, handles, expCall>>

randVars == <<rand, randCopy, randLog>>

warpVars == <<warpingControl, warpCall>>

maskVars == <<maskPlanes, maskCall>>

sysVars == <<csSet, sysCall>>

filterVars == <<warningsState, filterCall>>

\* the objects of the native library that the tests drive
nativeVars == <<infoVars, copyVars, randVars, warpVars, maskVars, sysVars,
                filterVars>>

vars == <<geomPolicy, force, ret, nativeVars>>

\* what the calls on one kind of object leave alone
exceptInfo == <<geomVars, copyVars, randVars, warpVars, maskVars, sysVars,
                filterVars>>

exceptCopy == <<geomVars, infoVars, randVars, warpVars, maskVars, sysVars,
                filterVars>>

exceptRand == <<geomVars, infoVars, copyVars, warpVars, maskVars, sysVars,
                filterVars>>

exceptWarp == <<geomVars, infoVars, copyVars, randVars, maskVars, sysVars,
                filterVars>>

exceptMask == <<geomVars, infoVars, copyVars, randVars, warpVars, sysVars,
                filterVars>>

exceptSys == <<geomVars, infoVars, copyVars, randVars, warpVars, maskVars,
               filterVars>>

exceptFilter == <<geomVars, infoVars, copyVars, randVars, warpVars, maskVars,
                  sysVars>>

\* the native objects of one kind before any is constructed
InfoIdle ==
    /\ exposureInfo = <<>>
    /\ infoCalls = <<>>

CopyIdle ==
    /\ heap = <<>>
    /\ handles = <<>>
    /\ expCall = <<>>

RandIdle ==
    /\ rand = <<>>
    /\ randCopy = <<>>
    /\ randLog = <<>>

WarpIdle ==
    /\ warpingControl = <<>>
    /\ warpCall = <<>>

MaskIdle ==
    /\ maskPlanes = <<>>
    /\ maskCall = <<>>

SysIdle ==
    /\ csSet = <<>>
    /\ sysCall = <<>>

FilterIdle ==
    /\ warningsState = <<>>
    /\ filterCall = <<>>

NativeIdle ==
    /\ InfoIdle
    /\ CopyIdle
    /\ RandIdle
    /\ WarpIdle
    /\ MaskIdle
    /\ SysIdle
    /\ FilterIdle

(***************************************************************************)
(* Bounds of the model.                                                    *)
(***************************************************************************)
MaxCoord == 2       \* defect corners x0, y0, x1, y1 range over 0..MaxCoord
MaxExtent == 2      \* defect width, height range over 0..MaxExtent
MaxDefects == 2     \* Defect entries of one Ccd of the Defects policy

(***************************************************************************)
(* Python values.                                                          *)
(***************************************************************************)
None == [isNone |-> TRUE]

exists(p, name) == name \in DOMAIN p

\* the outcome of a call that returned `value'
Return(value) == [status |-> "ok", value |-> value]

\* `raise RuntimeError, msg'
RuntimeError(msg) == [status |-> "raise", exc |-> "RuntimeError", msg |-> msg]

\* `raise("...")': raising a str (a string exception, or TypeError where
\* the interpreter no longer has string exceptions)
StringRaise(msg) == [status |-> "raise", exc |-> "str", msg |-> msg]

\* use of a local name that no statement has bound
NameError(name) == [status |-> "raise", exc |-> "NameError", msg |-> <<name>>]

\* Policy.get(name) or Policy.getArray(name) of a name the policy lacks
NameNotFound(name) == [status |-> "raise", exc |-> "NameNotFound", msg |-> <<name>>]

\* Policy.get(name) of an array-valued name is the last value
Last(s) == s[Len(s)]

(***************************************************************************)
(* Native classes (constructed by the Python code, defined in C++).        *)
(***************************************************************************)
\* cameraGeom.Id(serial, name)
Id(serial, name) == [serial |-> serial, name |-> name]

\* cameraGeom.Id(name): the serial defaults to -1
IdOfName(name) == [serial |-> -1, name |-> name]

\* cameraGeom.Id(serial): the name defaults to "untitled"
IdOfSerial(serial) == [serial |-> serial, name |-> "untitled"]

\* Id.__eq__
IdEq(a, b) == a.serial = b.serial /\ a.name = b.name

\* afwGeom.Box2I(Point2I(minx, miny), Point2I(maxx, maxy))
Box2I(minx, miny, maxx, maxy) ==
    [minX |-> minx, minY |-> miny, maxX |-> maxx, maxY |-> maxy]

getWidth(box) == box.maxX - box.minX + 1
getHeight(box) == box.maxY - box.minY + 1

(***************************************************************************)
(* makeDefects                                                             *)
(***************************************************************************)
\* lines 1080-1090 with x1 = x0 + width
DefectX1_OffByOne(defect) ==
    IF ~exists(defect, "x1")
    THEN IF exists(defect, "width") /\ defect.width # 0
         THEN [err |-> "", v |-> defect.x0 + defect.width]
         ELSE [err |-> "has no x1/width", v |-> 0]
    ELSE IF exists(defect, "width") /\ defect.width # 0
            /\ defect.x1 # defect.x0 + defect.width
         THEN [err |-> "has inconsistent x1/width", v |-> 0]
         ELSE [err |-> "", v |-> defect.x1]

\* lines 1070-1090: the last column of a defect, or the error raised; `if
\* width:' takes a width of 0 like a width that is not given
DefectX1(defect) ==
    IF ~exists(defect, "x1")
    THEN IF exists(defect, "width") /\ defect.width # 0
         THEN [err |-> "", v |-> defect.x0 + defect.width - 1]
         ELSE [err |-> "has no x1/width", v |-> 0]
    ELSE IF exists(defect, "width") /\ defect.width # 0
            /\ defect.x1 # defect.x0 + defect.width - 1
         THEN [err |-> "has inconsistent x1/width", v |-> 0]
         ELSE [err |-> "", v |-> defect.x1]

\* lines 1092-1102: the last row of a defect, or the error raised
DefectY1(defect) ==
    IF ~exists(defect, "y1")
    THEN IF exists(defect, "height") /\ defect.height # 0
         THEN [err |-> "", v |-> defect.y0 + defect.height - 1]
         ELSE [err |-> "has no y1/height", v |-> 0]
    ELSE IF exists(defect, "height") /\ defect.height # 0
            /\ defect.y1 # defect.y0 + defect.height - 1
         THEN [err |-> "has inconsistent y1/height", v |-> 0]
         ELSE [err |-> "", v |-> defect.y1]

\* lines 1066-1105: the loop over the Defect entries of one Ccd; `defects'
\* is the DefectSet so far.  The x test comes before the y test.
RECURSIVE DefectLoop(_, _, _, _)
DefectLoop(defectArr, i, ccdId, defects) ==
    IF i > Len(defectArr) THEN [err |-> <<>>, defects |-> defects]
    ELSE LET With(defect, x1, y1) ==
                 IF x1.err # ""
                 THEN [err |-> <<x1.err, defect.x0, defect.y0, ccdId>>,
                       defects |-> defects]
                 ELSE IF y1.err # ""
                 THEN [err |-> <<y1.err, defect.x0, defect.y0, ccdId>>,
                       defects |-> defects]
                 ELSE DefectLoop(defectArr, i + 1, ccdId,
                         Append(defects,
                                Box2I(defect.x0, defect.y0, x1.v, y1.v)))
         IN  With(defectArr[i], DefectX1(defectArr[i]),
                  DefectY1(defectArr[i]))

\* lines 1060-1061: the Ccd entries of all Rafts of the Defects policy, in
\* the order the nested loops visit them
RECURSIVE DefectCcds(_, _)
DefectCcds(raftArr, i) ==
    IF i > Len(raftArr) THEN <<>>
    ELSE raftArr[i].Ccd \o DefectCcds(raftArr, i + 1)

\* lines 1058-1107: defectsDict is keyed by Id objects, which hash by
\* identity, so every Ccd entry makes its own item: the dictionary is the
\* sequence of its items, (key, value) in insertion order
RECURSIVE DefectsDictLoop(_, _, _)
DefectsDictLoop(ccdArr, i, defectsDict) ==
    IF i > Len(ccdArr) THEN Return(defectsDict)
    ELSE LET With(ccdId, r) ==
                 IF r.err # <<>> THEN RuntimeError(r.err)
                 ELSE DefectsDictLoop(ccdArr, i + 1,
                         Append(defectsDict,
                                [key |-> ccdId, defects |-> r.defects]))
         IN  IF ~exists(ccdArr[i], "Defect") THEN NameNotFound("Defect")
             ELSE With(Id(ccdArr[i].serial, ccdArr[i].name),
                       DefectLoop(ccdArr[i].Defect, 1,
                                  Id(ccdArr[i].serial, ccdArr[i].name), <<>>))

makeDefects(policy) ==
    DefectsDictLoop(DefectCcds(policy.Defects.Raft, 1), 1, <<>>)

(***************************************************************************)
(* makeCcd                                                                 *)
(***************************************************************************)
IsNone(v) == "isNone" \in DOMAIN v

\* the dict the caller passed as ccdInfo/raftInfo/cameraInfo, seen after a
\* call that raised: the dict is untouched, but the list under "ampSerial",
\* when the dict holds one, is the list the call has been counting in
InfoAfterRaise(info, counter) ==
    IF IsNone(info) \/ ~exists(info, "ampSerial") THEN info
    ELSE [info EXCEPT !.ampSerial = counter]

\* info.get("ampSerial", [0])[0]
AmpSerialOf(info) ==
    IF IsNone(info) \/ ~exists(info, "ampSerial") THEN 0 ELSE info.ampSerial

\* lines 212-214 and 235-237: Id(serial, name) of a policy, (0, "unknown")
\* when Policy.get raises because either is missing
IdOrUnknown(pol) ==
    IF exists(pol, "serial") /\ exists(pol, "name")
    THEN Id(pol.serial, pol.name)
    ELSE Id(0, "unknown")

\* lines 220-223 stopping at the first Ccd policy of the ptype
RECURSIVE CcdPolOfType_First(_, _, _, _)
CcdPolOfType_First(ccdTempArr, i, ptype, ccdPol) ==
    IF i > Len(ccdTempArr) THEN ccdPol
    ELSE IF ccdTempArr[i].ptype = ptype THEN ccdTempArr[i]
    ELSE CcdPolOfType_First(ccdTempArr, i + 1, ptype, ccdPol)

\* lines 220-223: the last Ccd policy with the description's ptype
RECURSIVE CcdPolOfType(_, _, _, _)
CcdPolOfType(ccdTempArr, i, ptype, ccdPol) ==
    IF i > Len(ccdTempArr) THEN ccdPol
    ELSE CcdPolOfType(ccdTempArr, i + 1, ptype,
            IF ccdTempArr[i].ptype = ptype THEN ccdTempArr[i] ELSE ccdPol)

\* lines 250-251: electronics[tuple(index)] = p for each Amp of the entry
RECURSIVE ElectronicAmps(_, _, _)
ElectronicAmps(ampArr, i, byIndex) ==
    IF i > Len(ampArr) THEN byIndex
    ELSE ElectronicAmps(ampArr, i + 1,
            (ampArr[i].index :> ampArr[i]) @@ byIndex)

\* lines 245-252 with the type test dropped
RECURSIVE ElectronicCcds_AnyType(_, _, _, _, _)
ElectronicCcds_AnyType(ccdArr, i, ccdName, ccdType, electronics) ==
    IF i > Len(ccdArr) THEN electronics
    ELSE IF ccdArr[i].name \in {"*", ccdName}
         THEN [hasCcdName |-> TRUE, ccdName |-> ccdArr[i].name,
               byIndex |-> ElectronicAmps(ccdArr[i].Amp, 1,
                                          electronics.byIndex)]
         ELSE ElectronicCcds_AnyType(ccdArr, i + 1, ccdName, ccdType,
                                     electronics)

\* lines 245-252: the Ccd entries of one Raft of the Electronic policy, up
\* to the first that matches (break)
RECURSIVE ElectronicCcds(_, _, _, _, _)
ElectronicCcds(ccdArr, i, ccdName, ccdType, electronics) ==
    IF i > Len(ccdArr) THEN electronics
    ELSE IF ccdArr[i].name \in {"*", ccdName} /\ ccdArr[i].ptype = ccdType
         THEN [hasCcdName |-> TRUE, ccdName |-> ccdArr[i].name,
               byIndex |-> ElectronicAmps(ccdArr[i].Amp, 1,
                                          electronics.byIndex)]
         ELSE ElectronicCcds(ccdArr, i + 1, ccdName, ccdType, electronics)

\* lines 243-252: the loop over the Rafts of the Electronic policy; the
\* break leaves the inner loop only
RECURSIVE ElectronicRafts(_, _, _, _, _)
ElectronicRafts(raftArr, i, ccdName, ccdType, electronics) ==
    IF i > Len(raftArr) THEN electronics
    ELSE ElectronicRafts(raftArr, i + 1, ccdName, ccdType,
            ElectronicCcds(raftArr[i].Ccd, 1, ccdName, ccdType, electronics))

\* str.upper() on the coordinate-system names a policy gives
Upper(s) ==
    CASE s = "amp" -> "AMP"
      [] s = "sensor" -> "SENSOR"
      [] s = "camera" -> "CAMERA"
      [] OTHER -> s

\* lines 282-284: the keys of diskCoordSys
DiskCoordSys == {"AMP", "SENSOR", "CAMERA"}

\* lines 329-333: the last Amp policy of the given ptype, None without one
RECURSIVE AmpPolOfType(_, _, _, _)
AmpPolOfType(ampPolArr, i, ampType, ampPol) ==
    IF i > Len(ampPolArr) THEN ampPol
    ELSE AmpPolOfType(ampPolArr, i + 1, ampType,
            IF ampPolArr[i].ptype = ampType THEN ampPolArr[i] ELSE ampPol)

\* lines 257-261: ccd.setDefects for every key of defectDict equal to ccdId;
\* the Ccd's `defects' lists the sets it was called with
RECURSIVE SetDefectsLoop(_, _, _, _)
SetDefectsLoop(defectDict, i, ccdId, calls) ==
    IF i > Len(defectDict) THEN calls
    ELSE SetDefectsLoop(defectDict, i + 1, ccdId,
            IF IdEq(ccdId, defectDict[i].key)
            THEN Append(calls, defectDict[i].defects) ELSE calls)

\* lines 316-325: gain, read noise and saturation level of the Amp at
\* `index', or the RuntimeError raised
ElectronicParamsOf(electronics, index, ccdId, serial) ==
    IF index \in DOMAIN electronics.byIndex
    THEN [err |-> <<>>,
          eParams |-> [gain |-> electronics.byIndex[index].gain,
                       readNoise |-> electronics.byIndex[index].readNoise,
                       saturationLevel |->
                           electronics.byIndex[index].saturationLevel]]
    ELSE IF ~(electronics.hasCcdName /\ electronics.ccdName = "*")
         THEN [err |-> <<"Unable to find electronic info", ccdId, serial>>,
               eParams |-> None]
         ELSE [err |-> <<>>,
               eParams |-> [gain |-> 0, readNoise |-> 0,
                            saturationLevel |-> 0]]

\* lines 287-292 with an explicit serial ignored
AmpSerial_CounterOnly(ampPol, counter) == counter

\* lines 287-292: the serial of an Amp entry, given the counter
AmpSerial(ampPol, counter) ==
    IF exists(ampPol, "serial") THEN ampPol.serial ELSE counter

\* lines 308-314 with the row test dropped
AmpIndexInRange_ColOnly(Col, Row, nCol, nRow) == Col \in 0..(nCol - 1)

\* line 308: Col in range(nCol) and Row in range(nRow)
AmpIndexInRange(Col, Row, nCol, nRow) ==
    Col \in 0..(nCol - 1) /\ Row \in 0..(nRow - 1)

\* lines 337-350: the Amp built from its entry, its serial, the Amp policy
\* of its ptype and its electronic parameters
AmpOf(ampPol, serial, typePol, eParams) ==
    [id |-> [serial |-> serial, name |-> <<"ID", serial>>,
             ix |-> ampPol.index[1], iy |-> ampPol.index[2]],
     allPixels |-> Box2I(0, 0, typePol.ewidth - 1, typePol.eheight - 1),
     biasSec |-> Box2I(typePol.biassec[1], typePol.biassec[2],
                       typePol.biassec[3], typePol.biassec[4]),
     dataSec |-> Box2I(typePol.datasec[1], typePol.datasec[2],
                       typePol.datasec[3], typePol.datasec[4]),
     eParams |-> eParams,
     layout |-> [pos |-> ampPol.index, nQuarter |-> ampPol.nQuarter,
                 flipLR |-> ampPol.flipLR,
                 coordSys |-> Upper(ampPol.diskCoordSys)]]

\* lines 286-354: one pass of the loop over the Amp entries.  st holds the
\* locals that outlive a pass: the counter ampSerial[0], ampSerial0, the
\* Amps added to the Ccd, stderr, and dataSec/eWidth/eHeight once bound;
\* st.log is the history of the counter: per Amp entry reached, its value
\* before, the serial given to the entry, its value after.
AmpPass(policy, ampPol, nCol, nRow, electronics, ccdId, frc, st) ==
    LET Col == ampPol.index[1]
        Row == ampPol.index[2]
        locMsg == <<"Amp location is not in range", Col, Row, nCol, nRow>>
        With(serial, st1, e, typePol) ==
            IF Upper(ampPol.diskCoordSys) \notin DiskCoordSys
            THEN [out |-> StringRaise(<<"Coordinate system specified in the policy must be one of">>),
                  st |-> st1]
            ELSE IF ~AmpIndexInRange(Col, Row, nCol, nRow)
            THEN IF frc
                 THEN [out |-> None,
                       st |-> [st1 EXCEPT !.stderr = Append(@, locMsg)]]
                 ELSE [out |-> RuntimeError(locMsg), st |-> st1]
            ELSE IF e.err # <<>>
            THEN [out |-> RuntimeError(e.err), st |-> st1]
            ELSE IF IsNone(typePol)
            THEN [out |-> RuntimeError(<<"Unable to find bounding box info for Amp",
                                         Col, Row, ccdId>>),
                  st |-> st1]
            ELSE [out |-> None,
                  st |-> [st1 EXCEPT
                             !.amps = Append(@, AmpOf(ampPol, serial, typePol,
                                                      e.eParams)),
                             !.bound = <<[dataSec |->
                                              Box2I(typePol.datasec[1],
                                                    typePol.datasec[2],
                                                    typePol.datasec[3],
                                                    typePol.datasec[4]),
                                          eWidth |-> typePol.ewidth,
                                          eHeight |-> typePol.eheight]>>]]
        WithSerial(serial) ==
            With(serial,
                 [st EXCEPT !.ampSerial = serial + 1,
                            !.ampSerial0 = IF @ = <<>> THEN <<serial>> ELSE @,
                            !.log = Append(@, [entry |-> ampPol,
                                               before |-> st.ampSerial,
                                               serial |-> serial,
                                               after |-> serial + 1])],
                 ElectronicParamsOf(electronics, ampPol.index, ccdId, serial),
                 AmpPolOfType(policy.Amp, 1, ampPol.ptype, None))
    IN  WithSerial(AmpSerial(ampPol, st.ampSerial))

\* line 286: for ampPol in ccdPol.getArray("Amp")
RECURSIVE AmpLoop(_, _, _, _, _, _, _, _, _)
AmpLoop(policy, ampArr, i, nCol, nRow, electronics, ccdId, frc, st) ==
    IF i > Len(ampArr) THEN [out |-> None, st |-> st]
    ELSE LET With(r) ==
                 IF ~IsNone(r.out) THEN r
                 ELSE AmpLoop(policy, ampArr, i + 1, nCol, nRow, electronics,
                              ccdId, frc, r.st)
         IN  With(AmpPass(policy, ampArr[i], nCol, nRow, electronics, ccdId,
                          frc, st))

\* line 216 with the comparison on the serial only
IdentifiersAgree_SerialOnly(tId, ccdId) == tId.serial = ccdId.serial

\* line 216: tId == ccdId
IdentifiersAgree(tId, ccdId) == IdEq(tId, ccdId)

\* line 263 with the test on the columns only
AmpCountMatches_ColsOnly(nCol, nRow, ampArr) == nCol = Len(ampArr)

\* line 263: nCol*nRow against the number of Amp entries
AmpCountMatches(nCol, nRow, ampArr) == nCol * nRow = Len(ampArr)

\* lines 358-368: ccdInfo after clear() and the assignments
CcdInfoOf(ccdId, ccdPol, st) ==
    [ampSerial |-> st.ampSerial,
     name |-> ccdId.name,
     ampWidth |-> getWidth(st.bound[1].dataSec),
     ampHeight |-> getHeight(st.bound[1].dataSec),
     width |-> ccdPol.nCol * st.bound[1].eWidth,
     height |-> ccdPol.nRow * st.bound[1].eHeight,
     trimmedWidth |-> ccdPol.nCol * getWidth(st.bound[1].dataSec),
     trimmedHeight |-> ccdPol.nRow * getHeight(st.bound[1].dataSec),
     pixelSize |-> ccdPol.pixelSize,
     ampIdMin |-> st.ampSerial0[1],
     ampIdMax |-> st.ampSerial - 1]

\* line 243: electronics = {}
NoElectronics == [hasCcdName |-> FALSE, ccdName |-> "", byIndex |-> <<>>]

\* lines 228-370: makeCcd once ccdPol is chosen
makeCcdFromPol(policy, ccdId0, ccdInfo, defectDict, ccdPol, frc) ==
    LET nCol == ccdPol.nCol
        nRow == ccdPol.nRow
        countOk == AmpCountMatches(nCol, nRow, ccdPol.Amp)
        countMsg == <<"Expected location of amplifiers", nCol * nRow,
                      Len(ccdPol.Amp)>>
        st0 == [ampSerial |-> AmpSerialOf(ccdInfo), ampSerial0 |-> <<>>,
                amps |-> <<>>, bound |-> <<>>, log |-> <<>>,
                stderr |-> IF countOk THEN <<>> ELSE <<countMsg>>]
        Finish(ccdId, electronics, loop) ==
            IF ~IsNone(loop.out)
            THEN [out |-> loop.out,
                  info |-> InfoAfterRaise(ccdInfo, loop.st.ampSerial),
                  stderr |-> loop.st.stderr, electronics |-> electronics,
                  log |-> loop.st.log]
            ELSE IF ~IsNone(ccdInfo) /\ loop.st.bound = <<>>
            THEN [out |-> NameError("dataSec"),
                  info |-> InfoAfterRaise(ccdInfo, loop.st.ampSerial),
                  stderr |-> loop.st.stderr, electronics |-> electronics,
                  log |-> loop.st.log]
            ELSE [out |-> Return([id |-> ccdId,
                                  pixelSize |-> ccdPol.pixelSize,
                                  defects |-> SetDefectsLoop(defectDict, 1,
                                                             ccdId, <<>>),
                                  amps |-> loop.st.amps]),
                  info |-> IF IsNone(ccdInfo) THEN None
                           ELSE CcdInfoOf(ccdId, ccdPol, loop.st),
                  stderr |-> loop.st.stderr, electronics |-> electronics,
                  log |-> loop.st.log]
        WithElectronics(ccdId, electronics) ==
            IF ~countOk /\ ~frc
            THEN [out |-> RuntimeError(countMsg), info |-> ccdInfo,
                  stderr |-> <<>>, electronics |-> electronics, log |-> <<>>]
            ELSE Finish(ccdId, electronics,
                        AmpLoop(policy, ccdPol.Amp, 1, nCol, nRow,
                                electronics, ccdId, frc, st0))
        WithId(ccdId) ==
            WithElectronics(ccdId,
                ElectronicRafts(policy.Electronic.Raft, 1, ccdId.name,
                                ccdPol.ptype, NoElectronics))
    IN  WithId(IF IsNone(ccdId0) THEN IdOrUnknown(ccdPol) ELSE ccdId0)

\* lines 203-227: the choice of ccdPol, then the rest of makeCcd
makeCcd(policy, ccdId, ccdInfo, defectDict, ccdDescription, frc) ==
    LET hasDesc == ~IsNone(ccdDescription)
        With(tId, ccdPol) ==
            IF hasDesc /\ ~IsNone(ccdId) /\ ~IdentifiersAgree(tId, ccdId)
            THEN [out |-> StringRaise(<<"Identifiers don't agree", ccdId, tId>>),
                  info |-> ccdInfo, stderr |-> <<>>,
                  electronics |-> NoElectronics, log |-> <<>>]
            ELSE IF IsNone(ccdPol)
            THEN [out |-> StringRaise(<<"No valid CCD policy found">>),
                  info |-> ccdInfo, stderr |-> <<>>,
                  electronics |-> NoElectronics, log |-> <<>>]
            ELSE makeCcdFromPol(policy,
                                IF hasDesc /\ IsNone(ccdId) THEN tId ELSE ccdId,
                                ccdInfo, defectDict, ccdPol, frc)
    IN  With(IdOrUnknown(ccdDescription),
             IF hasDesc
             THEN CcdPolOfType(policy.Ccd, 1, ccdDescription.ptype, None)
             ELSE Last(policy.Ccd))

(***************************************************************************)
(* makeRaft                                                                *)
(***************************************************************************)
\* a value computed by the native geometry classes from the detectors'
\* sizes (getAllPixels, getSize().getMm()); the factories only store it
NativeValue == "native"

\* lines 379-382 and 481-484: the info dict handed down one level
InfoBelow(info) ==
    IF IsNone(info) THEN None ELSE [ampSerial |-> AmpSerialOf(info)]

\* lines 387-393: the Id of a Raft policy built from what it provides
RaftPolId(p) ==
    IF exists(p, "name")
    THEN IF exists(p, "serial") THEN Id(p.serial, p.name)
         ELSE IdOfName(p.name)
    ELSE IdOfSerial(p.serial)

\* lines 386-399 taking the last match instead of the first
RECURSIVE FindRaftPol_Last(_, _, _)
FindRaftPol_Last(raftArr, i, raftId) ==
    IF i > Len(raftArr) THEN [err |-> <<>>, raftPol |-> None]
    ELSE LET With(p, rest) ==
                 IF ~exists(p, "name") /\ ~exists(p, "serial")
                 THEN [err |-> <<"Please provide a raft name, a raft serial, or both">>,
                       raftPol |-> None]
                 ELSE IF rest.err # <<>> \/ ~IsNone(rest.raftPol) THEN rest
                 ELSE IF IdEq(RaftPolId(p), raftId)
                 THEN [err |-> <<>>, raftPol |-> p]
                 ELSE rest
         IN  With(raftArr[i], FindRaftPol_Last(raftArr, i + 1, raftId))

\* lines 386-399: the scan of the Raft array for raftId
RECURSIVE FindRaftPol(_, _, _)
FindRaftPol(raftArr, i, raftId) ==
    IF i > Len(raftArr) THEN [err |-> <<>>, raftPol |-> None]
    ELSE IF ~exists(raftArr[i], "name") /\ ~exists(raftArr[i], "serial")
    THEN [err |-> <<"Please provide a raft name, a raft serial, or both">>,
          raftPol |-> None]
    ELSE IF IdEq(RaftPolId(raftArr[i]), raftId)
    THEN [err |-> <<>>, raftPol |-> raftArr[i]]
    ELSE FindRaftPol(raftArr, i + 1, raftId)

\* Policy.isArray(name): the name holds more than one value
isArray(arr) == Len(arr) > 1

\* lines 448-461 and 508-521: the guess of the gutter after a detector at
\* (Col, Row) was added; xGutter and yGutter are bound or not
Gutter(Col, Row, nCol, nRow, g) ==
    IF <<Col, Row>> = <<0, 0>>
    THEN [err |-> <<>>, x |-> TRUE, y |-> TRUE]
    ELSE IF <<Col, Row>> = <<nCol - 1, nRow - 1>>
    THEN IF nCol # 1 /\ ~g.x THEN [err |-> <<"xGutter">>, x |-> g.x, y |-> g.y]
         ELSE IF nRow # 1 /\ ~g.y
         THEN [err |-> <<"yGutter">>, x |-> TRUE, y |-> g.y]
         ELSE [err |-> <<>>, x |-> TRUE, y |-> TRUE]
    ELSE [err |-> <<>>, x |-> g.x, y |-> g.y]

\* lines 434-440 with the column bound off by one
CcdIndexInRange_OffByOne(Col, Row, nCol, nRow) ==
    Col \in 0..nCol /\ Row \in 0..(nRow - 1)

\* line 434: Col in range(nCol) and Row in range(nRow)
CcdIndexInRange(Col, Row, nCol, nRow) ==
    Col \in 0..(nCol - 1) /\ Row \in 0..(nRow - 1)

\* lines 442-446 and 503-506: the detector added to its parent at the
\* entry's index, with the entry's offset and orientation
Placed(index, center, nQuarter, angles, det) ==
    [index |-> index, center |-> center,
     orient |-> [nQuarter |-> nQuarter, angles |-> angles], det |-> det]

\* lines 427-461: one pass of the loop over the Ccd entries of the Raft
\* policy.  st: the dict ccdInfo, the detectors added, stderr, the gutters,
\* and the last Ccd built.
CcdPass(policy, ccdPol, nCol, nRow, raftInfo, defectDict, frc, st) ==
    LET Col == ccdPol.index[1]
        Row == ccdPol.index[2]
        locMsg == <<"Ccd location is not in range", Col, Row, nCol, nRow>>
        Added(r, g, st2) ==
            IF g.err # <<>>
            THEN [out |-> NameError(g.err[1]), st |-> st2]
            ELSE [out |-> None,
                  st |-> [st2 EXCEPT !.gutter = [x |-> g.x, y |-> g.y]]]
        Made(r, st1) ==
            IF r.out.status # "ok" THEN [out |-> r.out, st |-> st1]
            ELSE Added(r,
                       IF IsNone(raftInfo)
                       THEN [err |-> <<>>, x |-> FALSE, y |-> FALSE]
                       ELSE Gutter(Col, Row, nCol, nRow, st.gutter),
                       [st1 EXCEPT
                           !.detectors =
                               Append(@, Placed(ccdPol.index, ccdPol.offset,
                                                ccdPol.nQuarter,
                                                ccdPol.orientation,
                                                r.out.value)),
                           !.last = <<r.out.value>>])
        With(r) ==
            Made(r, [st EXCEPT !.ccdInfo = r.info, !.stderr = @ \o r.stderr,
                               !.log = @ \o r.log])
    IN  IF ~CcdIndexInRange(Col, Row, nCol, nRow)
        THEN IF frc
             THEN [out |-> None,
                   st |-> [st EXCEPT !.stderr = Append(@, locMsg)]]
             ELSE [out |-> RuntimeError(locMsg), st |-> st]
        ELSE With(makeCcd(policy, Id(ccdPol.serial, ccdPol.name), st.ccdInfo,
                          defectDict, ccdPol, frc))

\* line 427: for ccdPol in raftPol.getArray("Ccd")
RECURSIVE CcdLoop(_, _, _, _, _, _, _, _, _)
CcdLoop(policy, ccdArr, i, nCol, nRow, raftInfo, defectDict, frc, st) ==
    IF i > Len(ccdArr) THEN [out |-> None, st |-> st]
    ELSE LET With(r) ==
                 IF ~IsNone(r.out) THEN r
                 ELSE CcdLoop(policy, ccdArr, i + 1, nCol, nRow, raftInfo,
                              defectDict, frc, r.st)
         IN  With(CcdPass(policy, ccdArr[i], nCol, nRow, raftInfo,
                          defectDict, frc, st))

\* lines 463-471: raftInfo after clear() and the assignments, which stop
\* at the first name that is not bound (ccd, xGutter, yGutter)
RaftInfoOf(raftId, st) ==
    IF st.last = <<>>
    THEN [out |-> NameError("ccd"),
          info |-> [ampSerial |-> st.ccdInfo.ampSerial, name |-> raftId.name]]
    ELSE IF ~st.gutter.x
    THEN [out |-> NameError("xGutter"),
          info |-> [ampSerial |-> st.ccdInfo.ampSerial, name |-> raftId.name,
                    pixelSize |-> st.last[1].pixelSize,
                    width |-> NativeValue, height |-> NativeValue]]
    ELSE IF ~st.gutter.y
    THEN [out |-> NameError("yGutter"),
          info |-> [ampSerial |-> st.ccdInfo.ampSerial, name |-> raftId.name,
                    pixelSize |-> st.last[1].pixelSize,
                    width |-> NativeValue, height |-> NativeValue,
                    widthMm |-> NativeValue]]
    ELSE [out |-> None,
          info |-> [ampSerial |-> st.ccdInfo.ampSerial, name |-> raftId.name,
                    pixelSize |-> st.last[1].pixelSize,
                    width |-> NativeValue, height |-> NativeValue,
                    widthMm |-> NativeValue, heightMm |-> NativeValue]]

\* line 419: `if False:', the test for a filled Raft switched off
FilledRaftRequired_On == TRUE

FilledRaftRequired == FALSE

\* lines 406-473: makeRaft once raftPol is chosen
makeRaftFromPol(policy, raftId0, raftInfo, defectDict, raftPol, frc) ==
    LET nCol == raftPol.nCol
        nRow == raftPol.nRow
        fillMsg == <<"Expected location of Ccds", nCol * nRow,
                     Len(raftPol.Ccd)>>
        unfilled == nCol * nRow # Len(raftPol.Ccd) /\ FilledRaftRequired
        st0 == [ccdInfo |-> InfoBelow(raftInfo), detectors |-> <<>>,
                stderr |-> IF unfilled /\ frc THEN <<fillMsg>> ELSE <<>>,
                gutter |-> [x |-> FALSE, y |-> FALSE],
                last |-> <<>>, log |-> <<>>]
        Finish(raft, loop, fin) ==
            IF IsNone(raftInfo)
            THEN [out |-> Return(raft), info |-> None,
                  stderr |-> loop.st.stderr, log |-> loop.st.log]
            ELSE IF ~IsNone(fin.out)
            THEN [out |-> fin.out, info |-> fin.info,
                  stderr |-> loop.st.stderr, log |-> loop.st.log]
            ELSE [out |-> Return(raft), info |-> fin.info,
                  stderr |-> loop.st.stderr, log |-> loop.st.log]
        With(raftId, loop) ==
            IF ~IsNone(loop.out)
            THEN [out |-> loop.out,
                  info |-> InfoAfterRaise(raftInfo,
                                          AmpSerialOf(loop.st.ccdInfo)),
                  stderr |-> loop.st.stderr, log |-> loop.st.log]
            ELSE Finish([id |-> raftId, nCol |-> nCol, nRow |-> nRow,
                         detectors |-> loop.st.detectors],
                        loop,
                        IF IsNone(raftInfo) THEN [out |-> None, info |-> None]
                        ELSE RaftInfoOf(raftId, loop.st))
    IN  With(IF IsNone(raftId0) THEN IdOrUnknown(raftPol) ELSE raftId0,
             IF unfilled /\ ~frc
             THEN [out |-> RuntimeError(fillMsg), st |-> st0]
             ELSE CcdLoop(policy, raftPol.Ccd, 1, nCol, nRow, raftInfo,
                          defectDict, frc, st0))

\* lines 372-404: the choice of raftPol, then the rest of makeRaft
makeRaft(policy, raftId, raftInfo, defectDict, frc) ==
    LET With(f) ==
            IF f.err # <<>>
            THEN [out |-> RuntimeError(f.err), info |-> raftInfo,
                  stderr |-> <<>>, log |-> <<>>]
            ELSE IF IsNone(f.raftPol)
            THEN [out |-> RuntimeError(<<"I can't find Raft", raftId>>),
                  info |-> raftInfo, stderr |-> <<>>, log |-> <<>>]
            ELSE makeRaftFromPol(policy, raftId, raftInfo, defectDict,
                                 f.raftPol, frc)
    IN  With(IF ~IsNone(raftId) /\ isArray(policy.Raft)
             THEN FindRaftPol(policy.Raft, 1, raftId)
             ELSE [err |-> <<>>, raftPol |-> Last(policy.Raft)])

(***************************************************************************)
(* makeCamera                                                              *)
(***************************************************************************)
\* the items of a dict in the order its iteration yields them
RECURSIVE Permuted(_, _, _)
Permuted(items, order, i) ==
    IF i > Len(order) THEN <<>>
    ELSE <<items[order[i]]>> \o Permuted(items, order, i + 1)

\* the orders in which a dict of n items may be iterated
Orders(n) == {o \in [1..n -> 1..n] : \A i, j \in 1..n : i # j => o[i] # o[j]}

\* line 494 always taking the Defects section
HasDefects_Always(policy) == TRUE

\* line 494: Defects.Raft.Ccd, each the last value of its name, holds a
\* Defect
HasDefects(policy) == exists(Last(Last(policy.Defects.Raft).Ccd), "Defect")

\* lines 526-537: the distortion named active in the Camera policy
DistortionOf(cameraPol) ==
    IF ~exists(cameraPol.Distortion, cameraPol.Distortion.active)
    THEN [err |-> <<cameraPol.Distortion.active>>, distort |-> None]
    ELSE IF cameraPol.Distortion.active = "NullDistortion"
    THEN [err |-> <<>>, distort |-> [type |-> "NullDistortion"]]
    ELSE IF cameraPol.Distortion.active = "RadialPolyDistortion"
    THEN [err |-> <<>>,
          distort |-> [type |-> "RadialPolyDistortion",
                       coeffs |-> cameraPol.Distortion.RadialPolyDistortion.coeffs,
                       coefficientsDistort |->
                           cameraPol.Distortion.RadialPolyDistortion.coefficientsDistort]]
    ELSE [err |-> <<>>, distort |-> None]

\* lines 499-521: one pass of the loop over the Raft entries of the Camera
\* policy
RaftPass(policy, raftPol, nCol, nRow, cameraInfo, defDict, frc, st) ==
    LET Col == raftPol.index[1]
        Row == raftPol.index[2]
        Added(r, g, st2) ==
            IF g.err # <<>>
            THEN [out |-> NameError(g.err[1]), st |-> st2]
            ELSE [out |-> None,
                  st |-> [st2 EXCEPT !.gutter = [x |-> g.x, y |-> g.y]]]
        Made(r, st1) ==
            IF r.out.status # "ok" THEN [out |-> r.out, st |-> st1]
            ELSE Added(r,
                       IF IsNone(cameraInfo)
                       THEN [err |-> <<>>, x |-> FALSE, y |-> FALSE]
                       ELSE Gutter(Col, Row, nCol, nRow, st.gutter),
                       [st1 EXCEPT
                           !.detectors =
                               Append(@, Placed(raftPol.index, raftPol.offset,
                                                0, <<0, 0, 0>>, r.out.value)),
                           !.last = <<r.out.value>>])
        With(r) ==
            Made(r, [st EXCEPT !.raftInfo = r.info, !.stderr = @ \o r.stderr,
                               !.log = @ \o r.log])
    IN  With(makeRaft(policy, Id(raftPol.serial, raftPol.name), st.raftInfo,
                      defDict, frc))

\* line 499: for raftPol in cameraPol.getArray("Raft")
RECURSIVE RaftLoop(_, _, _, _, _, _, _, _, _)
RaftLoop(policy, raftArr, i, nCol, nRow, cameraInfo, defDict, frc, st) ==
    IF i > Len(raftArr) THEN [out |-> None, st |-> st]
    ELSE LET With(r) ==
                 IF ~IsNone(r.out) THEN r
                 ELSE RaftLoop(policy, raftArr, i + 1, nCol, nRow, cameraInfo,
                               defDict, frc, r.st)
         IN  With(RaftPass(policy, raftArr[i], nCol, nRow, cameraInfo,
                           defDict, frc, st))

\* lines 540-548: cameraInfo after clear() and the assignments, which stop
\* at the first name that is not bound (raft, xGutter, yGutter)
CameraInfoOf(cameraId, st) ==
    IF st.last = <<>>
    THEN [out |-> NameError("raft"),
          info |-> [ampSerial |-> AmpSerialOf(st.raftInfo),
                    name |-> cameraId.name]]
    ELSE IF ~st.gutter.x
    THEN [out |-> NameError("xGutter"),
          info |-> [ampSerial |-> AmpSerialOf(st.raftInfo),
                    name |-> cameraId.name,
                    width |-> NativeValue, height |-> NativeValue,
                    pixelSize |-> NativeValue]]
    ELSE IF ~st.gutter.y
    THEN [out |-> NameError("yGutter"),
          info |-> [ampSerial |-> AmpSerialOf(st.raftInfo),
                    name |-> cameraId.name,
                    width |-> NativeValue, height |-> NativeValue,
                    pixelSize |-> NativeValue, widthMm |-> NativeValue]]
    ELSE [out |-> None,
          info |-> [ampSerial |-> AmpSerialOf(st.raftInfo),
                    name |-> cameraId.name,
                    width |-> NativeValue, height |-> NativeValue,
                    pixelSize |-> NativeValue, widthMm |-> NativeValue,
                    heightMm |-> NativeValue]]

\* lines 475-550: makeCamera; `order' is the order in which the keys of
\* the defect dictionary are iterated
makeCamera(policy, cameraId0, cameraInfo, frc, order) ==
    LET cameraPol == policy.Camera
        nCol == cameraPol.nCol
        nRow == cameraPol.nRow
        st0 == [raftInfo |-> InfoBelow(cameraInfo), detectors |-> <<>>,
                stderr |-> <<>>, gutter |-> [x |-> FALSE, y |-> FALSE],
                last |-> <<>>, log |-> <<>>]
        Finish(camera, defDict, loop, fin) ==
            IF IsNone(cameraInfo)
            THEN [out |-> Return(camera), info |-> None,
                  stderr |-> loop.st.stderr, defDict |-> defDict,
                  log |-> loop.st.log]
            ELSE IF ~IsNone(fin.out)
            THEN [out |-> fin.out, info |-> fin.info,
                  stderr |-> loop.st.stderr, defDict |-> defDict,
                  log |-> loop.st.log]
            ELSE [out |-> Return(camera), info |-> fin.info,
                  stderr |-> loop.st.stderr, defDict |-> defDict,
                  log |-> loop.st.log]
        Looped(cameraId, defDict, loop, d) ==
            IF ~IsNone(loop.out)
            THEN [out |-> loop.out,
                  info |-> InfoAfterRaise(cameraInfo,
                                          AmpSerialOf(loop.st.raftInfo)),
                  stderr |-> loop.st.stderr, defDict |-> defDict,
                  log |-> loop.st.log]
            ELSE IF d.err # <<>>
            THEN [out |-> NameNotFound(d.err[1]),
                  info |-> InfoAfterRaise(cameraInfo,
                                          AmpSerialOf(loop.st.raftInfo)),
                  stderr |-> loop.st.stderr, defDict |-> defDict,
                  log |-> loop.st.log]
            ELSE Finish([id |-> cameraId, nCol |-> nCol, nRow |-> nRow,
                         detectors |-> loop.st.detectors,
                         distortion |-> d.distort],
                        defDict, loop,
                        IF IsNone(cameraInfo) THEN [out |-> None, info |-> None]
                        ELSE CameraInfoOf(cameraId, loop.st))
        WithDict(cameraId, defDict) ==
            Looped(cameraId, defDict,
                   RaftLoop(policy, cameraPol.Raft, 1, nCol, nRow, cameraInfo,
                            defDict, frc, st0),
                   DistortionOf(cameraPol))
        With(cameraId, made) ==
            IF made.status # "ok"
            THEN [out |-> made, info |-> cameraInfo, stderr |-> <<>>,
                  defDict |-> <<>>, log |-> <<>>]
            ELSE WithDict(cameraId, Permuted(made.value, order, 1))
    IN  With(IF IsNone(cameraId0)
             THEN Id(cameraPol.serial, cameraPol.name) ELSE cameraId0,
             IF HasDefects(policy) THEN makeDefects(policy) ELSE Return(<<>>))

(***************************************************************************)
(* Policies.  The records below are the parts policies are put together    *)
(* from; the sets of policies the specifications start from follow.        *)
(***************************************************************************)
MaxSerial == 2      \* explicit Amp serials and counter starts are 0..MaxSerial
MaxAmps == 2        \* Amp entries of a Ccd policy whose Amp array is drawn

SeqUpTo(S, n) == UNION {[1..k -> S] : k \in 0..n}

\* the Amp policy (properties common to the Amps of one ptype)
AmpTypePol ==
    [ptype |-> "amp", datasec |-> <<1, 0, 2, 1>>, biassec |-> <<0, 0, 0, 1>>,
     ewidth |-> 3, eheight |-> 2]

\* an Amp entry of a Ccd policy at index (c, r), without and with a serial
AmpEntry(c, r) ==
    [index |-> <<c, r>>, ptype |-> "amp", flipLR |-> FALSE,
     diskCoordSys |-> "sensor", nQuarter |-> 0, hdu |-> 0]

AmpEntryS(c, r, serial) ==
    [index |-> <<c, r>>, ptype |-> "amp", flipLR |-> FALSE,
     diskCoordSys |-> "sensor", nQuarter |-> 0, hdu |-> 0, serial |-> serial]

\* an Amp entry whose diskCoordSys is none of the three the code knows
AmpEntryBadSys(c, r) ==
    [index |-> <<c, r>>, ptype |-> "amp", flipLR |-> FALSE,
     diskCoordSys |-> "sky", nQuarter |-> 0, hdu |-> 0]

\* a Ccd policy of ptype "A", nCol by nRow, with the given Amp array
CcdPolAR(nCol, nRow, ampArr) ==
    [ptype |-> "A", nCol |-> nCol, nRow |-> nRow, pixelSize |-> 1,
     Amp |-> ampArr]

\* Ccd policies of ptype "A" (nCol by 1, the given Amp array) and "B"
CcdPolA(nCol, ampArr) ==
    [ptype |-> "A", nCol |-> nCol, nRow |-> 1, pixelSize |-> 1,
     Amp |-> ampArr]

CcdPolB ==
    [ptype |-> "B", nCol |-> 1, nRow |-> 1, pixelSize |-> 2,
     Amp |-> <<AmpEntry(0, 0)>>]

\* ptype "B" with two Amps side by side
CcdPolB2 ==
    [ptype |-> "B", nCol |-> 2, nRow |-> 1, pixelSize |-> 3,
     Amp |-> <<AmpEntry(0, 0), AmpEntry(1, 0)>>]

\* ptype "B" with a second Amp entry whose row is outside the Ccd
CcdPolBOut ==
    [ptype |-> "B", nCol |-> 2, nRow |-> 1, pixelSize |-> 2,
     Amp |-> <<AmpEntry(0, 0), AmpEntry(0, 1)>>]

\* a Ccd entry of a Raft policy
CcdEntry(serial, name, ptype, c, r) ==
    [serial |-> serial, name |-> name, ptype |-> ptype, index |-> <<c, r>>,
     offset |-> <<c + 3, r + 4>>, nQuarter |-> 0, orientation |-> <<0, 0, 0>>]

RaftPol0 ==
    [name |-> "R0", serial |-> 0, nCol |-> 2, nRow |-> 1,
     Ccd |-> <<CcdEntry(0, "C0", "A", 0, 0), CcdEntry(1, "C1", "B", 1, 0)>>]

RaftPol1 ==
    [name |-> "R1", serial |-> 1, nCol |-> 1, nRow |-> 1,
     Ccd |-> <<CcdEntry(2, "C2", "B", 0, 0)>>]

\* "R1" with a second Ccd entry whose column is outside the Raft
RaftPol1Out ==
    [name |-> "R1", serial |-> 1, nCol |-> 1, nRow |-> 1,
     Ccd |-> <<CcdEntry(2, "C2", "B", 0, 0), CcdEntry(3, "C3", "B", 1, 0)>>]

\* a Raft entry of the Camera policy
CameraRaft(serial, name, c, r) ==
    [serial |-> serial, name |-> name, index |-> <<c, r>>,
     offset |-> <<c + 5, r + 7>>]

CameraPol(raftArr) ==
    [serial |-> 0, name |-> "Cam", nCol |-> 2, nRow |-> 1, Raft |-> raftArr,
     Distortion |-> [active |-> "NullDistortion",
                     NullDistortion |-> [isNull |-> TRUE]]]

\* an Amp entry of the Electronic policy
ElectronicAmp(c, r, gain) ==
    [index |-> <<c, r>>, gain |-> gain, readNoise |-> gain + 10,
     saturationLevel |-> gain + 100]

ElectronicCcd(name, ptype, ampArr) ==
    [name |-> name, ptype |-> ptype, Amp |-> ampArr]

ElectronicPol0 ==
    [Raft |-> <<[Ccd |-> <<ElectronicCcd("*", "A",
                              <<ElectronicAmp(0, 0, 1), ElectronicAmp(1, 0, 2)>>),
                           ElectronicCcd("*", "B",
                              <<ElectronicAmp(0, 0, 3)>>)>>]>>]

\* a Defect entry given by corner and size, and a Ccd entry of the Defects
\* policy
DefectWH(x0, y0, width, height) ==
    [x0 |-> x0, y0 |-> y0, width |-> width, height |-> height]

DefectCcd(serial, name, defectArr) ==
    [serial |-> serial, name |-> name, Defect |-> defectArr]

\* a Ccd entry of the Defects policy that lists no Defect
DefectCcdNone(serial, name) == [serial |-> serial, name |-> name]

DefectsPol(ccdArr) == [Raft |-> <<[Ccd |-> ccdArr]>>]

GeomPolicy(cameraRafts, raftArr, ccdArr, electronic, defects) ==
    [Camera |-> CameraPol(cameraRafts), Raft |-> raftArr, Ccd |-> ccdArr,
     Amp |-> <<AmpTypePol>>, Electronic |-> electronic, Defects |-> defects]

(***************************************************************************)
(* The calls.  Each is the whole function, run on the current policy with  *)
(* arguments the caller chooses.                                           *)
(***************************************************************************)
\* info dicts a caller passes: none, an empty dict, a dict with a counter
InfoArgs == {None, <<>>} \cup {[ampSerial |-> k] : k \in 1..MaxSerial}

\* the defect dictionaries a caller has at hand: the empty default, and
\* what makeDefects returns for the policy, iterated in any order
DictArgs(policy) ==
    LET With(made) ==
            {<<>>} \cup
            IF made.status = "ok"
            THEN {Permuted(made.value, o, 1) : o \in Orders(Len(made.value))}
            ELSE {}
    IN  With(makeDefects(policy))

\* the Ccd entries of the Raft policies, one of a ptype no Ccd policy has,
\* one without a serial
DescArgs(policy) ==
    {policy.Raft[i].Ccd[j] : <<i, j>> \in
        {<<i, j>> \in (1..Len(policy.Raft)) \X (1..3) :
            j <= Len(policy.Raft[i].Ccd)}}
    \cup {CcdEntry(0, "C0", "Z", 0, 0),
          [name |-> "C0", ptype |-> "A", index |-> <<0, 0>>,
           offset |-> <<0, 0>>, nQuarter |-> 0, orientation |-> <<0, 0, 0>>]}

CcdIdArgs == {None, Id(0, "C0"), Id(0, "Other"), Id(0, "unknown")}

RaftIdArgs ==
    {None, Id(0, "R0"), Id(1, "R1"), IdOfName("R0"), IdOfSerial(0),
     Id(9, "Rx")}

CameraIdArgs == {None, Id(5, "Mine")}

\* ret while no call has been made, or once the caller has dropped the
\* outcome of the last one
NoCall == [op |-> "none"]

\* the module flag is assigned from outside, between calls:
\* cameraGeomUtils.force = ...
SetForce ==
    /\ ret = NoCall
    /\ force' = ~force
    /\ UNCHANGED <<geomPolicy, ret, nativeVars>>

MakeDefectsCall ==
    /\ ret = NoCall
    /\ ret' = [op |-> "makeDefects", out |-> makeDefects(geomPolicy)]
    /\ UNCHANGED <<geomPolicy, force, nativeVars>>

MakeCcdCall ==
    /\ ret = NoCall
    /\ \E ccdId \in CcdIdArgs, ccdInfo \in InfoArgs,
          defectDict \in DictArgs(geomPolicy),
          ccdDescription \in DescArgs(geomPolicy) \cup {None} :
          LET Outcome(r) ==
                  [op |-> "makeCcd", force |-> force,
                   args |-> [id |-> ccdId, info |-> ccdInfo,
                             defectDict |-> defectDict,
                             description |-> ccdDescription],
                   out |-> r.out, info |-> r.info, stderr |-> r.stderr,
                   log |-> r.log, electronics |-> r.electronics]
          IN  ret' = Outcome(makeCcd(geomPolicy, ccdId, ccdInfo, defectDict,
                                     ccdDescription, force))
    /\ UNCHANGED <<geomPolicy, force, nativeVars>>

MakeRaftCall ==
    /\ ret = NoCall
    /\ \E raftId \in RaftIdArgs, raftInfo \in InfoArgs,
          defectDict \in DictArgs(geomPolicy) :
          LET Outcome(r) ==
                  [op |-> "makeRaft", force |-> force,
                   args |-> [id |-> raftId, info |-> raftInfo,
                             defectDict |-> defectDict],
                   out |-> r.out, info |-> r.info, stderr |-> r.stderr,
                   log |-> r.log]
          IN  ret' = Outcome(makeRaft(geomPolicy, raftId, raftInfo,
                                      defectDict, force))
    /\ UNCHANGED <<geomPolicy, force, nativeVars>>

MakeCameraCall ==
    /\ ret = NoCall
    /\ \E cameraId \in CameraIdArgs, cameraInfo \in InfoArgs,
          order \in Orders(IF HasDefects(geomPolicy)
                           THEN Len(DefectCcds(geomPolicy.Defects.Raft, 1))
                           ELSE 0) :
          LET Outcome(r) ==
                  [op |-> "makeCamera", force |-> force,
                   args |-> [id |-> cameraId, info |-> cameraInfo],
                   out |-> r.out, info |-> r.info, stderr |-> r.stderr,
                   log |-> r.log, defDict |-> r.defDict]
          IN  ret' = Outcome(makeCamera(geomPolicy, cameraId, cameraInfo,
                                        force, order))
    /\ UNCHANGED <<geomPolicy, force, nativeVars>>

(***************************************************************************)
(* Spec: cameras.  The policies vary in the Raft entries of the Camera,    *)
(* the Raft and Ccd policies, the serials of the Amp entries and the       *)
(* Defects section.                                                        *)
(***************************************************************************)
MaxRafts == 2       \* Raft entries of the Camera policy

CameraRafts ==
    {CameraRaft(0, "R0", 0, 0), CameraRaft(1, "R1", 1, 0),
     CameraRaft(9, "Rx", 1, 0)}

RaftArrays ==
    {<<RaftPol0, RaftPol1>>, <<RaftPol0, RaftPol1Out>>,
     <<RaftPol1, RaftPol0>>, <<RaftPol0>>}

\* the two Amp entries of Ccd policy "A", each with or without a serial
AmpArraysA ==
    {<<a, b>> : <<a, b>> \in
        ({AmpEntry(0, 0)} \cup {AmpEntryS(0, 0, k) : k \in 0..MaxSerial})
        \X ({AmpEntry(1, 0)} \cup {AmpEntryS(1, 0, k) : k \in 0..MaxSerial})}

\* the Ccd policies: ptype "A" then "B"; "B" with an Amp outside the Ccd;
\* two policies of ptype "B"
CcdArrays ==
    {<<CcdPolA(2, <<AmpEntry(0, 0), AmpEntryS(1, 0, 1)>>), CcdPolB>>,
     <<CcdPolA(2, <<AmpEntry(0, 0), AmpEntryS(1, 0, 1)>>), CcdPolBOut>>,
     <<CcdPolB2, CcdPolA(2, <<AmpEntry(0, 0), AmpEntryS(1, 0, 1)>>), CcdPolB>>}

GoodDefect == DefectWH(0, 0, 1, 1)

DefectsPols ==
    {DefectsPol(<<DefectCcd(0, "C0", <<GoodDefect>>)>>),
     DefectsPol(<<DefectCcd(0, "C0", <<GoodDefect>>),
                  DefectCcd(0, "C0", <<DefectWH(1, 1, 2, 1), GoodDefect>>)>>),
     DefectsPol(<<DefectCcd(0, "C0", <<GoodDefect>>),
                  DefectCcdNone(1, "C1")>>),
     DefectsPol(<<DefectCcdNone(2, "C2")>>),
     DefectsPol(<<DefectCcdNone(0, "C0"),
                  DefectCcd(1, "C1", <<GoodDefect>>)>>),
     DefectsPol(<<DefectCcd(2, "C2", <<[x0 |-> 0, y0 |-> 0]>>)>>),
     [Raft |-> <<[Ccd |-> <<DefectCcd(1, "C1", <<GoodDefect>>)>>],
                 [Ccd |-> <<DefectCcd(7, "C7", <<GoodDefect>>),
                            DefectCcd(2, "C2", <<DefectWH(0, 1, 1, 2)>>)>>]>>]}

DefectsPol0 == DefectsPol(<<DefectCcd(0, "C0", <<GoodDefect>>)>>)

CameraPolicies ==
    {GeomPolicy(c, r, b, ElectronicPol0, DefectsPol0) :
        <<c, r, b>> \in SeqUpTo(CameraRafts, MaxRafts) \X RaftArrays
                        \X CcdArrays}
    \cup
    {GeomPolicy(<<CameraRaft(0, "R0", 0, 0), CameraRaft(1, "R1", 1, 0)>>,
                <<RaftPol0, RaftPol1>>, <<CcdPolA(2, a), CcdPolB>>,
                ElectronicPol0, DefectsPol0) : a \in AmpArraysA}
    \cup
    {GeomPolicy(<<CameraRaft(0, "R0", 0, 0), CameraRaft(1, "R1", 1, 0)>>,
                r, <<CcdPolA(2, <<AmpEntry(0, 0), AmpEntry(1, 0)>>), CcdPolB>>,
                ElectronicPol0, d) :
        <<r, d>> \in {<<RaftPol0, RaftPol1>>, <<RaftPol0>>} \X DefectsPols}

\* the caller drops the outcome of the last call
Discard ==
    /\ ret # NoCall
    /\ ret' = NoCall
    /\ UNCHANGED <<geomPolicy, force, nativeVars>>

Init ==
    /\ geomPolicy \in CameraPolicies
    /\ force = FALSE
    /\ ret = NoCall
    /\ NativeIdle

Next ==
    \/ SetForce
    \/ MakeDefectsCall
    \/ MakeCcdCall
    \/ MakeRaftCall
    \/ MakeCameraCall
    \/ Discard

Spec == Init /\ [][Next]_vars

(***************************************************************************)
(* The amp serial counter.                                                 *)
(***************************************************************************)
\* the call whose outcome ret holds was one of the three factories and was
\* handed an info dict
FactoryCallWithInfo ==
    /\ ret.op \in {"makeCcd", "makeRaft", "makeCamera"}
    /\ ~IsNone(ret.args.info)

\* the value of the counter when the call began: info.get("ampSerial", [0])
CounterAtCall ==
    IF "ampSerial" \in DOMAIN ret.args.info THEN ret.args.info.ampSerial ELSE 0

\* C1: when makeCamera, makeRaft or makeCcd is given an info dict, one
\* counter runs through all the Amp entries the call reaches, across its
\* Ccds and Rafts: the first entry sees the counter the caller passed (0
\* without one), every later entry sees it as the entry before left it, an
\* entry without a serial gets the counter's value and one with a serial
\* gets that serial, the counter then is that serial + 1, and when the call
\* returns info["ampSerial"] is the last serial given + 1.  The Amps of a
\* Ccd built with force off carry these serials in order.
C1_SharedAmpSerial ==
    FactoryCallWithInfo =>
        /\ ret.log # <<>> => ret.log[1].before = CounterAtCall
        /\ \A i \in 1..Len(ret.log) :
              /\ ret.log[i].serial =
                    IF "serial" \in DOMAIN ret.log[i].entry
                    THEN ret.log[i].entry.serial ELSE ret.log[i].before
              /\ ret.log[i].after = ret.log[i].serial + 1
              /\ i > 1 => ret.log[i].before = ret.log[i - 1].after
        /\ ret.out.status = "ok" =>
              /\ ret.log # <<>>
              /\ ret.info.ampSerial = ret.log[Len(ret.log)].serial + 1
        /\ (ret.op = "makeCcd" /\ ret.out.status = "ok" /\ ~ret.force) =>
              /\ Len(ret.out.value.amps) = Len(ret.log)
              /\ \A i \in 1..Len(ret.log) :
                    ret.out.value.amps[i].id.serial = ret.log[i].serial

\* a camera of two Rafts and three Ccds built from a counter the caller
\* started at 1, with an Amp entry whose serial moved the counter
C1_Witness ==
    /\ ret.op = "makeCamera"
    /\ ~IsNone(ret.args.info)
    /\ "ampSerial" \in DOMAIN ret.args.info
    /\ ret.out.status = "ok"
    /\ Len(ret.out.value.detectors) = 2
    /\ Len(ret.log) = 4
    /\ \E i \in 1..Len(ret.log) :
          /\ "serial" \in DOMAIN ret.log[i].entry
          /\ ret.log[i].serial # ret.log[i].before

(***************************************************************************)
(* The tree makeCamera builds.                                             *)
(***************************************************************************)
\* a Raft policy provides the identifier id: Id(serial, name), Id(name)
\* with serial -1, or Id(serial) named "untitled"
MatchesRaftId(p, id) ==
    /\ IF "name" \in DOMAIN p THEN p.name = id.name ELSE id.name = "untitled"
    /\ IF "serial" \in DOMAIN p THEN p.serial = id.serial ELSE id.serial = -1

\* the k-th Raft policy is the one a raft of identifier id is built from:
\* the first that matches when Raft is an array, the only one otherwise
IsRaftPolicyOf(k, id) ==
    IF Len(geomPolicy.Raft) > 1
    THEN /\ MatchesRaftId(geomPolicy.Raft[k], id)
         /\ \A m \in 1..(k - 1) : ~MatchesRaftId(geomPolicy.Raft[m], id)
    ELSE k = Len(geomPolicy.Raft)

\* the k-th Ccd policy is the one a Ccd of the given ptype is built from:
\* the last of that ptype
IsCcdPolicyOf(k, ptype) ==
    /\ geomPolicy.Ccd[k].ptype = ptype
    /\ \A m \in (k + 1)..Len(geomPolicy.Ccd) : geomPolicy.Ccd[m].ptype # ptype

\* the Ccd `ccd' holds one Amp per Amp entry of the Ccd policy ccdPol
OneAmpPerEntry(ccd, ccdPol) ==
    /\ Len(ccd.amps) = Len(ccdPol.Amp)
    /\ \A a \in 1..Len(ccdPol.Amp) :
          /\ ccd.amps[a].layout.pos = ccdPol.Amp[a].index
          /\ ccd.amps[a].id.ix = ccdPol.Amp[a].index[1]
          /\ ccd.amps[a].id.iy = ccdPol.Amp[a].index[2]

\* the Raft `raft' holds one Ccd per Ccd entry of the Raft policy raftPol,
\* each with one Amp per Amp entry of the Ccd policy of its ptype
OneCcdPerEntry(raft, raftPol) ==
    /\ Len(raft.detectors) = Len(raftPol.Ccd)
    /\ \A j \in 1..Len(raftPol.Ccd) :
          /\ raft.detectors[j].index = raftPol.Ccd[j].index
          /\ raft.detectors[j].det.id =
                [serial |-> raftPol.Ccd[j].serial, name |-> raftPol.Ccd[j].name]
          /\ \E k \in 1..Len(geomPolicy.Ccd) :
                /\ IsCcdPolicyOf(k, raftPol.Ccd[j].ptype)
                /\ OneAmpPerEntry(raft.detectors[j].det, geomPolicy.Ccd[k])

\* C2: with force off, the Camera a successful makeCamera returns holds one
\* Raft per Raft entry of the Camera policy, in order, at the entry's index
\* and offset and with the Id of the entry's serial and name; each Raft
\* holds one Ccd per Ccd entry of its Raft policy and each Ccd one Amp per
\* Amp entry of its Ccd policy; nothing is dropped or added twice.
C2_CameraTreeIsExact ==
    (ret.op = "makeCamera" /\ ~ret.force /\ ret.out.status = "ok") =>
        /\ Len(ret.out.value.detectors) = Len(geomPolicy.Camera.Raft)
        /\ \A i \in 1..Len(geomPolicy.Camera.Raft) :
              /\ ret.out.value.detectors[i].index = geomPolicy.Camera.Raft[i].index
              /\ ret.out.value.detectors[i].center = geomPolicy.Camera.Raft[i].offset
              /\ ret.out.value.detectors[i].det.id =
                    [serial |-> geomPolicy.Camera.Raft[i].serial,
                     name |-> geomPolicy.Camera.Raft[i].name]
              /\ \E k \in 1..Len(geomPolicy.Raft) :
                    /\ IsRaftPolicyOf(k, ret.out.value.detectors[i].det.id)
                    /\ OneCcdPerEntry(ret.out.value.detectors[i].det,
                                      geomPolicy.Raft[k])

\* a camera of two Rafts, the first of two Ccds, built with force off from
\* a policy with two Ccd policies of one ptype
C2_Witness ==
    /\ ret.op = "makeCamera"
    /\ ~ret.force
    /\ ret.out.status = "ok"
    /\ Len(geomPolicy.Ccd) = 3
    /\ Len(ret.out.value.detectors) = 2
    /\ Len(ret.out.value.detectors[1].det.detectors) = 2
    /\ Len(ret.out.value.detectors[1].det.detectors[1].det.amps) = 2

(***************************************************************************)
(* Defects of the Ccds of a camera.                                        *)
(***************************************************************************)
\* the Ccds of a camera, whatever their Raft
CcdsOf(camera) ==
    {camera.detectors[i].det.detectors[j].det :
        <<i, j>> \in {<<i, j>> \in (1..Len(camera.detectors)) \X (1..3) :
                        j <= Len(camera.detectors[i].det.detectors)}}

\* the Ccd entries of the Defects policy, whatever their Raft
DefectEntries ==
    {geomPolicy.Defects.Raft[i].Ccd[j] :
        <<i, j>> \in {<<i, j>> \in (1..Len(geomPolicy.Defects.Raft)) \X (1..3) :
                        j <= Len(geomPolicy.Defects.Raft[i].Ccd)}}

\* the defect set of a Ccd entry of the Defects policy whose Defect entries
\* give corner and size: one box per entry, in order
DefectSetOf(e) ==
    IF "Defect" \in DOMAIN e
    THEN [d \in 1..Len(e.Defect) |->
            [minX |-> e.Defect[d].x0, minY |-> e.Defect[d].y0,
             maxX |-> e.Defect[d].x0 + e.Defect[d].width - 1,
             maxY |-> e.Defect[d].y0 + e.Defect[d].height - 1]]
    ELSE <<>>

\* the sets setDefects was called with on the Ccd
SetDefectsCalls(ccd) == {ccd.defects[i] : i \in 1..Len(ccd.defects)}

\* C3: in a camera makeCamera built, every Ccd whose Id is the Id (serial,
\* name) of a Ccd entry of the Defects policy has had setDefects called
\* with the defect set of that entry, with nothing else, and a Ccd with no
\* such entry has had no setDefects call.
C3_DefectsPerCcd ==
    (ret.op = "makeCamera" /\ ret.out.status = "ok") =>
        \A ccd \in CcdsOf(ret.out.value) :
            SetDefectsCalls(ccd) =
                {DefectSetOf(e) : e \in {e \in DefectEntries :
                    e.serial = ccd.id.serial /\ e.name = ccd.id.name
                    /\ "Defect" \in DOMAIN e}}

\* the same for the policies whose last Ccd entry of the last Raft of the
\* Defects policy lists a Defect
C3_DefectsPerCcdWhenLastListsDefect ==
    "Defect" \in DOMAIN
        geomPolicy.Defects.Raft[Len(geomPolicy.Defects.Raft)].Ccd[
            Len(geomPolicy.Defects.Raft[Len(geomPolicy.Defects.Raft)].Ccd)]
    => C3_DefectsPerCcd

\* a camera returned whose Ccd (0, "C0") has an entry with a Defect in the
\* Defects policy and has had no setDefects call
C3_Dropped ==
    /\ ret.op = "makeCamera"
    /\ ret.out.status = "ok"
    /\ \E ccd \in CcdsOf(ret.out.value) :
          /\ ccd.defects = <<>>
          /\ \E e \in DefectEntries :
                /\ e.serial = ccd.id.serial /\ e.name = ccd.id.name
                /\ "Defect" \in DOMAIN e /\ e.Defect # <<>>

(***************************************************************************)
(* SpecDefects: makeDefects on the Defect entries of one Ccd.  One entry   *)
(* of the array ranges over every combination of x1, y1, width and height  *)
(* given or not; the others are good entries.                              *)
(***************************************************************************)
\* a name given one of the values of S, or not given
Opt(name, S) == {<<>>} \cup {name :> v : v \in S}

DefectProbes ==
    {[x0 |-> c[1], y0 |-> c[2]] @@ o[1] @@ o[2] @@ o[3] @@ o[4] :
        <<c, o>> \in ((0..MaxCoord) \X (0..MaxCoord)) \X
                     (Opt("x1", 0..MaxCoord) \X Opt("y1", 0..MaxCoord) \X
                      Opt("width", 0..MaxExtent) \X Opt("height", 0..MaxExtent))}

\* the arrays of up to MaxDefects entries: good entries and one probe
DefectArrays ==
    {[i \in 1..kp[1] |-> IF i = kp[2] THEN d ELSE GoodDefect] :
        <<kp, d>> \in {kp \in (1..MaxDefects) \X (1..MaxDefects) :
                          kp[2] <= kp[1]} \X DefectProbes}

DefectPolicies ==
    {GeomPolicy(<<CameraRaft(0, "R0", 0, 0)>>, <<RaftPol0>>,
                <<CcdPolA(2, <<AmpEntry(0, 0), AmpEntry(1, 0)>>), CcdPolB>>,
                ElectronicPol0,
                DefectsPol(<<DefectCcd(0, "C0", a),
                             DefectCcd(1, "C1", <<DefectWH(1, 1, 1, 2)>>)>>)) :
        a \in DefectArrays}

InitDefects ==
    /\ geomPolicy \in DefectPolicies
    /\ force = FALSE
    /\ ret = NoCall
    /\ NativeIdle

NextDefects ==
    \/ MakeDefectsCall
    \/ Discard

SpecDefects == InitDefects /\ [][NextDefects]_vars

\* the box claimed for a Defect entry: (x0, y0) to (x1, y1), with
\* x1 = x0 + width - 1 and y1 = y0 + height - 1 where they are not given
ClaimedBox(d) ==
    [minX |-> d.x0, minY |-> d.y0,
     maxX |-> IF "x1" \in DOMAIN d THEN d.x1 ELSE d.x0 + d.width - 1,
     maxY |-> IF "y1" \in DOMAIN d THEN d.y1 ELSE d.y0 + d.height - 1]

\* the Ccd entries of the Defects policy in the order of the policy
DefectEntrySeq == geomPolicy.Defects.Raft[1].Ccd

\* C4: in the dictionary makeDefects returns, the set of each Ccd entry
\* holds one box per Defect entry, in the order of the policy, from
\* (x0, y0) to (x1, y1) inclusive with x1 = x0 + width - 1 where x1 is not
\* given and y1 = y0 + height - 1 where y1 is not given; an entry given by
\* corner and size alone is width by height pixels.
C4_DefectBoxes ==
    (ret.op = "makeDefects" /\ ret.out.status = "ok") =>
        /\ Len(ret.out.value) = Len(DefectEntrySeq)
        /\ \A c \in 1..Len(DefectEntrySeq) :
              /\ ret.out.value[c].key =
                    [serial |-> DefectEntrySeq[c].serial,
                     name |-> DefectEntrySeq[c].name]
              /\ Len(ret.out.value[c].defects) = Len(DefectEntrySeq[c].Defect)
              /\ \A i \in 1..Len(DefectEntrySeq[c].Defect) :
                    /\ ret.out.value[c].defects[i] =
                          ClaimedBox(DefectEntrySeq[c].Defect[i])
                    /\ DOMAIN DefectEntrySeq[c].Defect[i] =
                          {"x0", "y0", "width", "height"} =>
                          /\ getWidth(ret.out.value[c].defects[i]) =
                                DefectEntrySeq[c].Defect[i].width
                          /\ getHeight(ret.out.value[c].defects[i]) =
                                DefectEntrySeq[c].Defect[i].height

\* a dictionary returned for two Defect entries, the second given by corner
\* and size alone, two pixels wide and two high
C4_Witness ==
    /\ ret.op = "makeDefects"
    /\ ret.out.status = "ok"
    /\ Len(DefectEntrySeq[1].Defect) = 2
    /\ DefectEntrySeq[1].Defect[2] = DefectWH(1, 2, 2, 2)
    /\ Len(ret.out.value[1].defects) = 2
    /\ ret.out.value[1].defects[2].maxX = 2

\* the Defect entries the claim has rejected: neither x1 nor width, neither
\* y1 nor height, or both with x1 # x0 + width - 1 or y1 # y0 + height - 1
ClaimedBad(d) ==
    \/ "x1" \notin DOMAIN d /\ "width" \notin DOMAIN d
    \/ "y1" \notin DOMAIN d /\ "height" \notin DOMAIN d
    \/ "x1" \in DOMAIN d /\ "width" \in DOMAIN d /\ d.x1 # d.x0 + d.width - 1
    \/ "y1" \in DOMAIN d /\ "height" \in DOMAIN d /\ d.y1 # d.y0 + d.height - 1

\* the same with a width or height of 0 taken as not given
BadTakingZeroAsAbsent(d) ==
    \/ "x1" \notin DOMAIN d /\ ("width" \notin DOMAIN d \/ d.width = 0)
    \/ "y1" \notin DOMAIN d /\ ("height" \notin DOMAIN d \/ d.height = 0)
    \/ "x1" \in DOMAIN d /\ "width" \in DOMAIN d /\ d.width # 0
       /\ d.x1 # d.x0 + d.width - 1
    \/ "y1" \in DOMAIN d /\ "height" \in DOMAIN d /\ d.height # 0
       /\ d.y1 # d.y0 + d.height - 1

AllDefects ==
    {DefectEntrySeq[c].Defect[i] :
        <<c, i>> \in {<<c, i>> \in (1..Len(DefectEntrySeq)) \X (1..(MaxDefects + 1)) :
                        i <= Len(DefectEntrySeq[c].Defect)}}

\* C5: makeDefects raises RuntimeError exactly when some Defect entry gives
\* neither x1 nor width, or neither y1 nor height, or gives both with
\* x1 # x0 + width - 1 or y1 # y0 + height - 1; every other entry is
\* accepted; and when it raises no dictionary is returned.
C5_DefectErrors ==
    ret.op = "makeDefects" =>
        /\ (\E d \in AllDefects : ClaimedBad(d)) <=>
              (ret.out.status = "raise" /\ ret.out.exc = "RuntimeError")
        /\ (\A d \in AllDefects : ~ClaimedBad(d)) <=> ret.out.status = "ok"
        /\ ret.out.status = "raise" => "value" \notin DOMAIN ret.out

\* what makeDefects does: the same with a width or height of 0 taken as
\* not given
C5_DefectErrorsTakingZeroAsAbsent ==
    ret.op = "makeDefects" =>
        /\ (\E d \in AllDefects : BadTakingZeroAsAbsent(d)) <=>
              (ret.out.status = "raise" /\ ret.out.exc = "RuntimeError")
        /\ (\A d \in AllDefects : ~BadTakingZeroAsAbsent(d)) <=>
              ret.out.status = "ok"
        /\ ret.out.status = "raise" => "value" \notin DOMAIN ret.out

\* an entry with x1 and a width of 0 that do not agree, accepted
C5_ZeroWidthAccepted ==
    /\ ret.op = "makeDefects"
    /\ ret.out.status = "ok"
    /\ \E d \in AllDefects :
          /\ "x1" \in DOMAIN d /\ "width" \in DOMAIN d
          /\ d.width = 0 /\ d.x1 # d.x0 + d.width - 1

(***************************************************************************)
(* SpecCcd: makeCcd on Ccd policies of several shapes and Amp arrays, with *)
(* force off and on.                                                       *)
(***************************************************************************)
AmpCatalog ==
    {AmpEntry(0, 0), AmpEntry(1, 0), AmpEntry(0, 1), AmpEntryBadSys(1, 0)}

\* (nCol, nRow) of the Ccd policy of ptype "A"
CcdShapes == {<<1, 1>>, <<2, 1>>, <<2, 2>>}

CcdPolicies ==
    {GeomPolicy(<<CameraRaft(0, "R0", 0, 0)>>, <<RaftPol0>>,
                <<CcdPolB, CcdPolAR(sh[1], sh[2], a)>>,
                ElectronicPol0, DefectsPol0) :
        <<sh, a>> \in CcdShapes \X SeqUpTo(AmpCatalog, MaxAmps)}

InitCcd ==
    /\ geomPolicy \in CcdPolicies
    /\ force = FALSE
    /\ ret = NoCall
    /\ NativeIdle

NextCcd ==
    \/ SetForce
    \/ MakeCcdCall
    \/ Discard

SpecCcd == InitCcd /\ [][NextCcd]_vars

\* the Id of the description handed to makeCcd: of its serial and name,
\* (0, "unknown") when it lacks one of them
DescriptionId ==
    IF "serial" \in DOMAIN ret.args.description
       /\ "name" \in DOMAIN ret.args.description
    THEN [serial |-> ret.args.description.serial,
          name |-> ret.args.description.name]
    ELSE [serial |-> 0, name |-> "unknown"]

\* makeCcd was given a description and an Id that disagree
IdentifiersDisagree ==
    /\ ~IsNone(ret.args.description)
    /\ ~IsNone(ret.args.id)
    /\ DescriptionId # ret.args.id

\* makeCcd was given a description of a ptype no Ccd policy has
NoPolicyOfType ==
    /\ ~IsNone(ret.args.description)
    /\ \A k \in 1..Len(geomPolicy.Ccd) :
          geomPolicy.Ccd[k].ptype # ret.args.description.ptype

\* the Ccd policy makeCcd selects: the last of the description's ptype, the
\* last of all without a description
SelectedCcdPol ==
    IF IsNone(ret.args.description)
    THEN geomPolicy.Ccd[Len(geomPolicy.Ccd)]
    ELSE geomPolicy.Ccd[CHOOSE k \in 1..Len(geomPolicy.Ccd) :
                            IsCcdPolicyOf(k, ret.args.description.ptype)]

\* makeCcd got as far as a selected Ccd policy
CcdPolSelected ==
    /\ ret.op = "makeCcd"
    /\ ~IdentifiersDisagree
    /\ ~NoPolicyOfType

\* the Amp entry is one makeCcd can place: a known coordinate system and an
\* index inside the Ccd
EntryInRange(a, ccdPol) ==
    /\ a.index[1] >= 0 /\ a.index[1] < ccdPol.nCol
    /\ a.index[2] >= 0 /\ a.index[2] < ccdPol.nRow

KnownCoordSys(a) == a.diskCoordSys \in {"amp", "sensor", "camera"}

AmpCountMsg ==
    <<"Expected location of amplifiers",
      SelectedCcdPol.nCol * SelectedCcdPol.nRow, Len(SelectedCcdPol.Amp)>>

\* C6: when nCol*nRow of the selected Ccd policy differs from the number
\* of its Amp entries, makeCcd with force off raises RuntimeError
\* "Expected location of N amplifiers, got M"; with force on it prints the
\* message, goes into the loop over the Amp entries and, where nothing
\* else is wrong with them, returns the Ccd.  When the two agree there is
\* neither the error nor the message.
C6_AmpCountMismatch ==
    CcdPolSelected =>
        IF SelectedCcdPol.nCol * SelectedCcdPol.nRow # Len(SelectedCcdPol.Amp)
        THEN IF ~ret.force
             THEN /\ ret.out = [status |-> "raise", exc |-> "RuntimeError",
                                msg |-> AmpCountMsg]
                  /\ ret.log = <<>>
             ELSE /\ ret.stderr # <<>> /\ ret.stderr[1] = AmpCountMsg
                  /\ ret.out.status = "raise" => ret.out.msg # AmpCountMsg
                  /\ SelectedCcdPol.Amp # <<>> => ret.log # <<>>
                  /\ (/\ SelectedCcdPol.Amp # <<>>
                      /\ \A i \in 1..Len(SelectedCcdPol.Amp) :
                            /\ KnownCoordSys(SelectedCcdPol.Amp[i])
                            /\ EntryInRange(SelectedCcdPol.Amp[i], SelectedCcdPol)
                      /\ geomPolicy.Electronic = ElectronicPol0)
                     => /\ ret.out.status = "ok"
                        /\ Len(ret.out.value.amps) = Len(SelectedCcdPol.Amp)
        ELSE /\ ret.out.status = "raise" => ret.out.msg # AmpCountMsg
             /\ \A i \in 1..Len(ret.stderr) : ret.stderr[i] # AmpCountMsg

\* a Ccd of one Amp returned with force on from a policy of 2 by 2
C6_Witness ==
    /\ ret.op = "makeCcd"
    /\ ret.force
    /\ IsNone(ret.args.description)
    /\ SelectedCcdPol.nCol * SelectedCcdPol.nRow = 4
    /\ Len(SelectedCcdPol.Amp) = 1
    /\ ret.out.status = "ok"
    /\ Len(ret.out.value.amps) = 1
    /\ ret.stderr = <<AmpCountMsg>>

AmpLocationMsg(a) ==
    <<"Amp location is not in range", a.index[1], a.index[2],
      SelectedCcdPol.nCol, SelectedCcdPol.nRow>>

\* the entries of s whose index is inside the Ccd, in order
RECURSIVE InRangeEntries(_, _)
InRangeEntries(s, ccdPol) ==
    IF s = <<>> THEN <<>>
    ELSE IF EntryInRange(Head(s), ccdPol)
         THEN <<Head(s)>> \o InRangeEntries(Tail(s), ccdPol)
         ELSE InRangeEntries(Tail(s), ccdPol)

C9_DescriptionErrors ==
    ret.op = "makeCcd" =>
        /\ IdentifiersDisagree =>
              /\ ret.out.status = "raise"
              /\ ret.out.msg[1] = "Identifiers don't agree"
              /\ "value" \notin DOMAIN ret.out
              /\ ret.log = <<>>
        /\ (NoPolicyOfType /\ ~IdentifiersDisagree) =>
              /\ ret.out.status = "raise"
              /\ ret.out.msg[1] = "No valid CCD policy found"
              /\ "value" \notin DOMAIN ret.out
              /\ ret.log = <<>>
        /\ (~NoPolicyOfType /\ ~IdentifiersDisagree) =>
              (ret.out.status = "raise" =>
                  ret.out.msg[1] \notin {"Identifiers don't agree",
                                         "No valid CCD policy found"})

\* makeCcd failed for the description of Ccd (0, "C0"), whose ptype has a
\* Ccd policy, and the Id (0, "Other")
C9_Witness ==
    /\ ret.op = "makeCcd"
    /\ IdentifiersDisagree
    /\ ~NoPolicyOfType
    /\ ret.args.id = [serial |-> 0, name |-> "Other"]
    /\ DescriptionId = [serial |-> 0, name |-> "C0"]
    /\ ret.out.status = "raise"
    /\ ret.out.msg[1] = "Identifiers don't agree"

(***************************************************************************)
(* SpecElec: makeCcd on Electronic policies of one or two Rafts whose Ccd  *)
(* entries match the Ccd by name, by "*", or not at all.                   *)
(***************************************************************************)
MaxElecCcds == 2    \* Ccd entries of the first Raft of the Electronic policy

ElecCatalog ==
    {ElectronicCcd("*", "A", <<ElectronicAmp(0, 0, 1)>>),
     ElectronicCcd("C0", "A", <<ElectronicAmp(0, 0, 2)>>),
     ElectronicCcd("C0", "A", <<ElectronicAmp(0, 0, 3), ElectronicAmp(1, 0, 4)>>),
     ElectronicCcd("C1", "A", <<ElectronicAmp(0, 0, 5), ElectronicAmp(1, 0, 6)>>),
     ElectronicCcd("C0", "B", <<ElectronicAmp(0, 0, 7), ElectronicAmp(1, 0, 8)>>)}

\* the Rafts after the first: none, one matching by "*", one by name
ElecLaterRafts ==
    {<<>>,
     <<[Ccd |-> <<ElectronicCcd("*", "A", <<ElectronicAmp(1, 0, 9)>>)>>]>>,
     <<[Ccd |-> <<ElectronicCcd("C0", "A", <<ElectronicAmp(0, 0, 10)>>)>>]>>}

ElecPolicies ==
    {GeomPolicy(<<CameraRaft(0, "R0", 0, 0)>>, <<RaftPol0>>,
                <<CcdPolB, CcdPolA(2, <<AmpEntry(0, 0), AmpEntry(1, 0)>>)>>,
                [Raft |-> <<[Ccd |-> c]>> \o l], DefectsPol0) :
        <<c, l>> \in SeqUpTo(ElecCatalog, MaxElecCcds) \X ElecLaterRafts}

InitElec ==
    /\ geomPolicy \in ElecPolicies
    /\ force = FALSE
    /\ ret = NoCall
    /\ NativeIdle

SpecElec == InitElec /\ [][NextCcd]_vars

\* a Ccd entry of the Electronic policy matches a Ccd of the given name and
\* ptype
ElecMatches(e, name, ptype) == e.ptype = ptype /\ e.name \in {"*", name}

\* the Ccd entries of the Electronic policy, each with the Raft r and the
\* place k it has there
ElecPlaces ==
    {<<r, k>> \in (1..Len(geomPolicy.Electronic.Raft)) \X (1..(MaxElecCcds + 1)) :
        k <= Len(geomPolicy.Electronic.Raft[r].Ccd)}

ElecAt(rk) == geomPolicy.Electronic.Raft[rk[1]].Ccd[rk[2]]

\* the places of the entries that match
MatchingPlaces(name, ptype) ==
    {rk \in ElecPlaces : ElecMatches(ElecAt(rk), name, ptype)}

\* the places of the entries makeCcd uses: in each Raft the first that
\* matches
UsedPlaces(name, ptype) ==
    {rk \in MatchingPlaces(name, ptype) :
        \A other \in MatchingPlaces(name, ptype) :
            other[1] = rk[1] => other[2] >= rk[2]}

\* the Amp entries at `index' under the entries at the given places
AmpsAt(places, index) ==
    {<<rk, a>> \in places \X (1..2) :
        /\ a <= Len(ElecAt(rk).Amp)
        /\ ElecAt(rk).Amp[a].index = index}

ParamsOf(ra) ==
    [gain |-> ElecAt(ra[1]).Amp[ra[2]].gain,
     readNoise |-> ElecAt(ra[1]).Amp[ra[2]].readNoise,
     saturationLevel |-> ElecAt(ra[1]).Amp[ra[2]].saturationLevel]

ZeroParams == [gain |-> 0, readNoise |-> 0, saturationLevel |-> 0]

\* the name of the matched entry is "*": of the entries used, the one of
\* the last Raft
MatchedNameIsStar(name, ptype) ==
    \E rk \in UsedPlaces(name, ptype) :
        /\ ElecAt(rk).name = "*"
        /\ \A other \in UsedPlaces(name, ptype) : other[1] <= rk[1]

\* the Ccd makeCcd builds or was building: its name and its ptype
CcdNameOfCall ==
    IF ~IsNone(ret.args.id) THEN ret.args.id.name
    ELSE IF ~IsNone(ret.args.description) THEN DescriptionId.name
    ELSE "unknown"

\* C8 as stated: the electronic parameters of an Amp are those of an Amp
\* entry of its index under a Ccd entry of the Electronic policy whose
\* ptype is the Ccd's and whose name is the Ccd's or "*"; an Amp with no
\* such entry gets gain, read noise and saturation level 0 when the
\* matched name is "*", and otherwise makeCcd raises RuntimeError "Unable
\* to find electronic info".
C8_ElectronicParamsOfAnyMatch ==
    CcdPolSelected =>
        /\ ret.out.status = "ok" =>
              \A m \in 1..Len(ret.out.value.amps) :
                  IF AmpsAt(MatchingPlaces(CcdNameOfCall, SelectedCcdPol.ptype),
                            ret.out.value.amps[m].layout.pos) # {}
                  THEN \E ra \in AmpsAt(MatchingPlaces(CcdNameOfCall,
                                                      SelectedCcdPol.ptype),
                                        ret.out.value.amps[m].layout.pos) :
                          ret.out.value.amps[m].eParams = ParamsOf(ra)
                  ELSE /\ ret.out.value.amps[m].eParams = ZeroParams
                       /\ MatchedNameIsStar(CcdNameOfCall, SelectedCcdPol.ptype)
        /\ (ret.out.status = "raise"
            /\ ret.out.msg[1] = "Unable to find electronic info") =>
              /\ AmpsAt(MatchingPlaces(CcdNameOfCall, SelectedCcdPol.ptype),
                        ret.log[Len(ret.log)].entry.index) = {}
              /\ ~MatchedNameIsStar(CcdNameOfCall, SelectedCcdPol.ptype)

\* C8: the Electronic policy is read Raft by Raft and in each Raft only the
\* first Ccd entry whose ptype is the Ccd's and whose name is the Ccd's or
\* "*" is used.  The electronic parameters of an Amp are those of the Amp
\* entry of its index under the entries used, of the last Raft that has
\* one; an Amp with no entry there gets gain, read noise and saturation
\* level 0 when the name of the entry used in the last Raft is "*", and
\* otherwise makeCcd raises RuntimeError "Unable to find electronic info".
C8_ElectronicParamsOfFirstMatch ==
    CcdPolSelected =>
        /\ ret.out.status = "ok" =>
              \A m \in 1..Len(ret.out.value.amps) :
                  IF AmpsAt(UsedPlaces(CcdNameOfCall, SelectedCcdPol.ptype),
                            ret.out.value.amps[m].layout.pos) # {}
                  THEN \E ra \in AmpsAt(UsedPlaces(CcdNameOfCall,
                                                  SelectedCcdPol.ptype),
                                        ret.out.value.amps[m].layout.pos) :
                          /\ ret.out.value.amps[m].eParams = ParamsOf(ra)
                          /\ \A rb \in AmpsAt(UsedPlaces(CcdNameOfCall,
                                                        SelectedCcdPol.ptype),
                                              ret.out.value.amps[m].layout.pos) :
                                rb[1][1] <= ra[1][1]
                  ELSE /\ ret.out.value.amps[m].eParams = ZeroParams
                       /\ MatchedNameIsStar(CcdNameOfCall, SelectedCcdPol.ptype)
        /\ (ret.out.status = "raise"
            /\ ret.out.msg[1] = "Unable to find electronic info") =>
              /\ AmpsAt(UsedPlaces(CcdNameOfCall, SelectedCcdPol.ptype),
                        ret.log[Len(ret.log)].entry.index) = {}
              /\ ~MatchedNameIsStar(CcdNameOfCall, SelectedCcdPol.ptype)
        /\ \A i \in 1..Len(ret.log) :
              (/\ EntryInRange(ret.log[i].entry, SelectedCcdPol)
               /\ AmpsAt(UsedPlaces(CcdNameOfCall, SelectedCcdPol.ptype),
                         ret.log[i].entry.index) = {}
               /\ ~MatchedNameIsStar(CcdNameOfCall, SelectedCcdPol.ptype)) =>
                  /\ i = Len(ret.log)
                  /\ ret.out.status = "raise"
                  /\ ret.out.exc = "RuntimeError"
                  /\ ret.out.msg[1] = "Unable to find electronic info"

\* a Ccd "C0" of two Amps returned from an Electronic policy of two Rafts:
\* the first Amp with the parameters of the entry named "C0" in the first
\* Raft, the second with those of the entry named "*" in the second
C8_Witness ==
    /\ ret.op = "makeCcd"
    /\ CcdPolSelected
    /\ CcdNameOfCall = "C0"
    /\ SelectedCcdPol.ptype = "A"
    /\ ret.out.status = "ok"
    /\ Len(ret.out.value.amps) = 2
    /\ ret.out.value.amps[1].eParams.gain = 2
    /\ ret.out.value.amps[2].eParams.gain = 9
    /\ Len(geomPolicy.Electronic.Raft) = 2

\* makeCcd raised "Unable to find electronic info" for the second Amp of
\* Ccd "C0", the entry used being named "C0" and listing one Amp
C8_WitnessRaise ==
    /\ ret.op = "makeCcd"
    /\ CcdPolSelected
    /\ CcdNameOfCall = "C0"
    /\ ret.out.status = "raise"
    /\ ret.out.msg[1] = "Unable to find electronic info"
    /\ Len(ret.log) = 2

\* a Ccd of two Amps returned, the second with zeros for want of an entry
C8_WitnessZeros ==
    /\ ret.op = "makeCcd"
    /\ CcdPolSelected
    /\ ret.out.status = "ok"
    /\ Len(ret.out.value.amps) = 2
    /\ ret.out.value.amps[1].eParams.gain = 1
    /\ ret.out.value.amps[2].eParams = ZeroParams
    /\ AmpsAt(MatchingPlaces(CcdNameOfCall, SelectedCcdPol.ptype),
              ret.out.value.amps[2].layout.pos) = {}

\* a Ccd "C0" whose second Amp got zeros although a Ccd entry named "C0" of
\* its ptype, behind one named "*", has an Amp entry of its index
C8_ShadowedEntry ==
    /\ ret.op = "makeCcd"
    /\ CcdPolSelected
    /\ ret.out.status = "ok"
    /\ Len(ret.out.value.amps) = 2
    /\ ret.out.value.amps[2].eParams = ZeroParams
    /\ AmpsAt(MatchingPlaces(CcdNameOfCall, SelectedCcdPol.ptype),
              ret.out.value.amps[2].layout.pos) # {}

(***************************************************************************)
(* SpecRaft: makeRaft on arrays of Raft policies that give a name, a       *)
(* serial, both or neither.                                                *)
(***************************************************************************)
MaxRaftPols == 2    \* Raft policies of the policy

\* a second Raft policy of the Id (0, "R0"), of one Ccd
RaftPol0Alt ==
    [name |-> "R0", serial |-> 0, nCol |-> 1, nRow |-> 1,
     Ccd |-> <<CcdEntry(2, "C2", "B", 0, 0)>>]

\* Raft policies with a name only, a serial only, and neither
RaftPolNameOnly ==
    [name |-> "R0", nCol |-> 1, nRow |-> 1,
     Ccd |-> <<CcdEntry(3, "C3", "B", 0, 0)>>]

RaftPolSerialOnly ==
    [serial |-> 0, nCol |-> 1, nRow |-> 1,
     Ccd |-> <<CcdEntry(4, "C4", "B", 0, 0)>>]

RaftPolAnonymous ==
    [nCol |-> 1, nRow |-> 1, Ccd |-> <<CcdEntry(5, "C5", "B", 0, 0)>>]

RaftCatalog ==
    {RaftPol0, RaftPol1, RaftPol0Alt, RaftPolNameOnly, RaftPolSerialOnly,
     RaftPolAnonymous}

RaftPolicies ==
    {GeomPolicy(<<CameraRaft(0, "R0", 0, 0)>>, r,
                <<CcdPolA(2, <<AmpEntry(0, 0), AmpEntry(1, 0)>>), CcdPolB>>,
                ElectronicPol0, DefectsPol0) :
        r \in SeqUpTo(RaftCatalog, MaxRaftPols) \ {<<>>}}

InitRaft ==
    /\ geomPolicy \in RaftPolicies
    /\ force = FALSE
    /\ ret = NoCall
    /\ NativeIdle

NextRaft ==
    \/ SetForce
    \/ MakeRaftCall
    \/ Discard

SpecRaft == InitRaft /\ [][NextRaft]_vars

\* the Raft policy gives a name or a serial
Identified(p) == "name" \in DOMAIN p \/ "serial" \in DOMAIN p

\* makeRaft was given a raftId and the policy's Raft is an array
RaftScanned ==
    /\ ret.op = "makeRaft"
    /\ ~IsNone(ret.args.id)
    /\ Len(geomPolicy.Raft) > 1

\* the raft is built from the Raft policy p: its shape, and Ccds of the
\* Ids and at the indexes of p's Ccd entries (all of them with force off)
BuiltFrom(raft, p) ==
    /\ raft.nCol = p.nCol /\ raft.nRow = p.nRow
    /\ ~ret.force => Len(raft.detectors) = Len(p.Ccd)
    /\ \A j \in 1..Len(raft.detectors) :
          \E e \in 1..Len(p.Ccd) :
              /\ raft.detectors[j].index = p.Ccd[e].index
              /\ raft.detectors[j].det.id =
                    [serial |-> p.Ccd[e].serial, name |-> p.Ccd[e].name]

\* C10: makeRaft called with a raftId on a policy whose Raft is an array
\* goes through the Raft policies in order.  At the first whose Id (of its
\* serial and name, or of the one it gives) equals raftId the scan ends
\* and the raft is built from that policy, with raftId as its Id; a policy
\* reached that gives neither a name nor a serial makes it raise
\* RuntimeError; when the scan ends without a match it raises
\* RuntimeError "I can't find Raft".
C10_RaftScan ==
    RaftScanned =>
        \A k \in 1..(Len(geomPolicy.Raft) + 1) :
            (\A m \in 1..(k - 1) :
                /\ Identified(geomPolicy.Raft[m])
                /\ ~MatchesRaftId(geomPolicy.Raft[m], ret.args.id)) =>
                IF k > Len(geomPolicy.Raft)
                THEN ret.out = [status |-> "raise", exc |-> "RuntimeError",
                                msg |-> <<"I can't find Raft", ret.args.id>>]
                ELSE IF ~Identified(geomPolicy.Raft[k])
                THEN /\ ret.out.status = "raise"
                     /\ ret.out.exc = "RuntimeError"
                     /\ ret.out.msg =
                           <<"Please provide a raft name, a raft serial, or both">>
                ELSE MatchesRaftId(geomPolicy.Raft[k], ret.args.id) =>
                     /\ ret.out.status = "raise" =>
                           ret.out.msg[1] \notin
                               {"I can't find Raft",
                                "Please provide a raft name, a raft serial, or both"}
                     /\ ret.out.status = "ok" =>
                           /\ ret.out.value.id = ret.args.id
                           /\ BuiltFrom(ret.out.value, geomPolicy.Raft[k])

\* a raft of two Ccds returned for the Id (0, "R0") from an array of two
\* Raft policies of that Id, the second of one Ccd
C10_Witness ==
    /\ RaftScanned
    /\ ret.args.id = [serial |-> 0, name |-> "R0"]
    /\ geomPolicy.Raft = <<RaftPol0, RaftPol0Alt>>
    /\ ret.out.status = "ok"
    /\ Len(ret.out.value.detectors) = 2

\* a raft found by its name alone behind a Raft policy that does not match
C10_WitnessNameOnly ==
    /\ RaftScanned
    /\ ret.args.id = [serial |-> -1, name |-> "R0"]
    /\ "serial" \notin DOMAIN geomPolicy.Raft[2]
    /\ ret.out.status = "ok"
    /\ ret.out.value.detectors[1].det.id.name = "C3"

\* the scan failed at a Raft policy with neither a name nor a serial
C10_WitnessAnonymous ==
    /\ RaftScanned
    /\ ret.out.status = "raise"
    /\ ret.out.msg[1] = "Please provide a raft name, a raft serial, or both"

(***************************************************************************)
(* findCcd, findRaft, findAmp: searches of a camera that makeCamera built. *)
(***************************************************************************)
\* iterating over an object that is not iterable
TypeError(msg) == [status |-> "raise", exc |-> "TypeError", msg |-> msg]

\* DetectorMosaic.findDetector found no detector of the Id
OutOfRange(msg) == [status |-> "raise", exc |-> "OutOfRange", msg |-> msg]

\* lines 996 and 1015: isinstance(parent, cameraGeom.Camera)
IsCamera(parent) == "distortion" \in DOMAIN parent

\* line 1000: isinstance(parent, cameraGeom.Raft)
IsRaft(parent) == "detectors" \in DOMAIN parent /\ ~IsCamera(parent)

\* DetectorMosaic.findDetector(id): the first detector of the mosaic whose
\* Id equals id.  What it does when there is none is decided by the native
\* library: miss is "raise" (an exception) or "null" (no detector).
RECURSIVE FindDetectorFrom(_, _, _, _)
FindDetectorFrom(dets, i, id, miss) ==
    IF i > Len(dets)
    THEN IF miss = "raise" THEN OutOfRange(<<"Unable to find detector", id>>)
         ELSE Return(None)
    ELSE IF IdEq(dets[i].det.id, id) THEN Return(dets[i].det)
    ELSE FindDetectorFrom(dets, i + 1, id, miss)

findDetector(mosaic, id, miss) == FindDetectorFrom(mosaic.detectors, 1, id, miss)

FindDetectorMiss == {"raise", "null"}

\* lines 1001-1005: the Raft branch of findCcd; whatever fails inside the
\* try is swallowed and None is returned at line 1010
FindCcdInRaft(raft, id, miss) ==
    LET With(d) ==
            IF d.status = "ok" /\ ~IsNone(d.value) THEN Return(d.value)
            ELSE Return(None)
    IN  With(findDetector(raft, id, miss))

\* lines 1006-1008: any other parent is compared by its Id
FindCcdSelf(parent, id) ==
    IF IdEq(parent.id, id) THEN Return(parent) ELSE Return(None)

\* lines 997-1000: the loop over the detectors of a Camera, each a Raft
\* that findCcd searches by its Raft branch; `if ccd:' is true of every Ccd
\* object and false of None
RECURSIVE FindCcdLoop_NoStop(_, _, _, _)
FindCcdLoop_NoStop(dets, i, id, miss) ==
    LET With(ccd, rest) ==
            IF ~IsNone(rest.value) THEN rest ELSE ccd
    IN  IF i > Len(dets) THEN Return(None)
        ELSE With(FindCcdInRaft(dets[i].det, id, miss),
                  FindCcdLoop_NoStop(dets, i + 1, id, miss))

RECURSIVE FindCcdLoop(_, _, _, _)
FindCcdLoop(dets, i, id, miss) ==
    LET With(ccd) ==
            IF ~IsNone(ccd.value) THEN ccd
            ELSE FindCcdLoop(dets, i + 1, id, miss)
    IN  IF i > Len(dets) THEN Return(None)
        ELSE With(FindCcdInRaft(dets[i].det, id, miss))

\* lines 993-1010
findCcd(parent, id, miss) ==
    IF IsCamera(parent) THEN FindCcdLoop(parent.detectors, 1, id, miss)
    ELSE IF IsRaft(parent) THEN FindCcdInRaft(parent, id, miss)
    ELSE FindCcdSelf(parent, id)

\* lines 1012-1023; `raft' at line 1020 is bound nowhere
findRaft(parent, id, miss) ==
    LET With(d) ==
            IF d.status # "ok" THEN d
            ELSE IF ~IsNone(d.value) THEN Return(d.value)
            ELSE Return(None)
    IN  IF IsCamera(parent) THEN With(findDetector(parent, id, miss))
        ELSE IF IdEq(parent.id, id) THEN NameError("raft")
        ELSE Return(None)

\* lines 987-991: the loop over the Amps of the Ccd found
RECURSIVE FindAmpLoop(_, _, _, _)
FindAmpLoop(amps, i, ix, iy) ==
    IF i > Len(amps) THEN Return(None)
    ELSE IF amps[i].id.ix = ix /\ amps[i].id.iy = iy THEN Return(amps[i])
    ELSE FindAmpLoop(amps, i + 1, ix, iy)

\* lines 983-991; iterating over the None that findCcd returned raises
findAmp(parent, ccdId, ix, iy, miss) ==
    LET With(ccd) ==
            IF IsNone(ccd.value)
            THEN TypeError(<<"'NoneType' object is not iterable">>)
            ELSE FindAmpLoop(ccd.value.amps, 1, ix, iy)
    IN  With(findCcd(parent, ccdId, miss))

\* the Camera a call of makeCamera returned, its Rafts and their Ccds
Composites(camera) ==
    {camera} \cup {camera.detectors[i].det : i \in 1..Len(camera.detectors)}
    \cup CcdsOf(camera)

FindCcdIds == {Id(0, "C0"), Id(1, "C1"), Id(2, "C2"), Id(0, "C1"), Id(7, "C7")}

FindRaftIds == {Id(0, "R0"), Id(1, "R1"), Id(0, "R1"), Id(9, "Rx")}

FindAmpIndexes == {<<0, 0>>, <<1, 0>>, <<0, 1>>}

FindCcdCall ==
    /\ ret.op = "makeCamera"
    /\ ret.out.status = "ok"
    /\ \E parent \in Composites(ret.out.value), id \in FindCcdIds,
          miss \in FindDetectorMiss :
          ret' = [op |-> "findCcd", args |-> [parent |-> parent, id |-> id],
                  miss |-> miss, out |-> findCcd(parent, id, miss)]
    /\ UNCHANGED <<geomPolicy, force, nativeVars>>

FindRaftCall ==
    /\ ret.op = "makeCamera"
    /\ ret.out.status = "ok"
    /\ \E parent \in Composites(ret.out.value),
          id \in FindRaftIds \cup FindCcdIds, miss \in FindDetectorMiss :
          ret' = [op |-> "findRaft", args |-> [parent |-> parent, id |-> id],
                  miss |-> miss, out |-> findRaft(parent, id, miss)]
    /\ UNCHANGED <<geomPolicy, force, nativeVars>>

FindAmpCall ==
    /\ ret.op = "makeCamera"
    /\ ret.out.status = "ok"
    /\ \E parent \in Composites(ret.out.value), ccdId \in FindCcdIds,
          index \in FindAmpIndexes, miss \in FindDetectorMiss :
          ret' = [op |-> "findAmp",
                  args |-> [parent |-> parent, ccdId |-> ccdId,
                            ix |-> index[1], iy |-> index[2]],
                  miss |-> miss,
                  out |-> findAmp(parent, ccdId, index[1], index[2], miss)]
    /\ UNCHANGED <<geomPolicy, force, nativeVars>>

\* cameras of up to MaxRafts Rafts, a Raft possibly twice
FindPolicies ==
    {GeomPolicy(c, <<RaftPol0, RaftPol1>>, b, ElectronicPol0, DefectsPol0) :
        <<c, b>> \in SeqUpTo(CameraRafts, MaxRafts) \X CcdArrays}

InitFind ==
    /\ geomPolicy \in FindPolicies
    /\ force = FALSE
    /\ ret = NoCall
    /\ NativeIdle

NextFind ==
    \/ SetForce
    \/ MakeCameraCall
    \/ FindCcdCall
    \/ FindRaftCall
    \/ FindAmpCall
    \/ Discard

SpecFind == InitFind /\ [][NextFind]_vars

\* the Ccds of a composite in the order a search meets them
RECURSIVE CcdsInOrder(_, _)
CcdsInOrder(dets, i) ==
    IF i > Len(dets) THEN <<>>
    ELSE [j \in 1..Len(dets[i].det.detectors) |-> dets[i].det.detectors[j].det]
         \o CcdsInOrder(dets, i + 1)

CcdSeqOf(parent) ==
    IF IsCamera(parent) THEN CcdsInOrder(parent.detectors, 1)
    ELSE IF IsRaft(parent)
    THEN [j \in 1..Len(parent.detectors) |-> parent.detectors[j].det]
    ELSE <<parent>>

HitsOf(seq, id) == {i \in 1..Len(seq) : IdEq(seq[i].id, id)}

\* C11: findCcd(parent, id) never raises; it returns the Ccd of parent (a
\* Camera, a Raft or a Ccd) whose Id equals id, the first one in the order
\* of the rafts when a Camera holds several, and None when parent holds none
C11_FindCcd ==
    ret.op = "findCcd" =>
        LET ccds == CcdSeqOf(ret.args.parent)
            hits == HitsOf(ccds, ret.args.id)
        IN  /\ ret.out.status = "ok"
            /\ hits = {} => ret.out.value = None
            /\ hits # {} =>
                   ret.out.value = ccds[CHOOSE i \in hits : \A j \in hits : i <= j]

\* a Camera with two different Ccds of the Id searched, the first returned
C11_Witness ==
    /\ ret.op = "findCcd"
    /\ IsCamera(ret.args.parent)
    /\ LET ccds == CcdSeqOf(ret.args.parent)
           hits == HitsOf(ccds, ret.args.id)
       IN  /\ \E i, j \in hits : i < j /\ ccds[i] # ccds[j]
           /\ ret.out = Return(ccds[CHOOSE i \in hits : \A j \in hits : i <= j])

\* a search that finds nothing in a Raft, whatever findDetector does then
C11_WitnessNone ==
    /\ ret.op = "findCcd"
    /\ IsRaft(ret.args.parent)
    /\ ret.miss = "raise"
    /\ ret.out = Return(None)

\* the detectors of a mosaic, in order
DetectorSeqOf(mosaic) ==
    [j \in 1..Len(mosaic.detectors) |-> mosaic.detectors[j].det]

\* C12: findRaft(parent, id) returns the Raft of a Camera whose Id equals
\* id, parent itself when parent is not a Camera and its Id equals id, and
\* None when nothing matches
C12_FindRaft ==
    ret.op = "findRaft" =>
        LET parent == ret.args.parent
            id == ret.args.id
        IN  IF IsCamera(parent)
            THEN LET rafts == DetectorSeqOf(parent)
                     hits == HitsOf(rafts, id)
                 IN  /\ hits = {} => ret.out = Return(None)
                     /\ hits # {} => /\ ret.out.status = "ok"
                                     /\ ret.out.value \in {rafts[i] : i \in hits}
            ELSE IF IdEq(parent.id, id) THEN ret.out = Return(parent)
            ELSE ret.out = Return(None)

\* C12, on a Camera that holds a Raft of the Id, and on a parent that is
\* not a Camera and whose Id differs from id: the part that holds
C12_FindRaftWhereDefined ==
    (/\ ret.op = "findRaft"
     /\ \/ /\ IsCamera(ret.args.parent)
           /\ HitsOf(DetectorSeqOf(ret.args.parent), ret.args.id) # {}
        \/ /\ ~IsCamera(ret.args.parent)
           /\ ~IdEq(ret.args.parent.id, ret.args.id))
    => /\ ret.out.status = "ok"
       /\ IF IsCamera(ret.args.parent)
          THEN /\ IsRaft(ret.out.value)
               /\ IdEq(ret.out.value.id, ret.args.id)
          ELSE ret.out.value = None

\* a Raft searched for its own Id: the unbound name is read
C12_UnboundRaft ==
    /\ ret.op = "findRaft"
    /\ IsRaft(ret.args.parent)
    /\ IdEq(ret.args.parent.id, ret.args.id)
    /\ ret.out = NameError("raft")

\* the Amps of a Ccd whose index is (ix, iy)
AmpHitsOf(ccd, ix, iy) ==
    {i \in 1..Len(ccd.amps) : ccd.amps[i].id.ix = ix /\ ccd.amps[i].id.iy = iy}

\* C13: findAmp(parent, ccdId, ix, iy) returns the Amp of index (ix, iy) of
\* the Ccd of Id ccdId, and None when there is no such Amp, also when parent
\* holds no Ccd of that Id
C13_FindAmp ==
    ret.op = "findAmp" =>
        LET ccds == CcdSeqOf(ret.args.parent)
            hits == HitsOf(ccds, ret.args.ccdId)
        IN  /\ hits = {} => ret.out = Return(None)
            /\ hits # {} =>
                 LET ccd == ccds[CHOOSE i \in hits : \A j \in hits : i <= j]
                     amps == AmpHitsOf(ccd, ret.args.ix, ret.args.iy)
                 IN  /\ amps = {} => ret.out = Return(None)
                     /\ amps # {} => /\ ret.out.status = "ok"
                                     /\ ret.out.value \in {ccd.amps[i] : i \in amps}

\* C13 where parent holds a Ccd of the Id: the part that holds
C13_FindAmpInCcdFound ==
    (ret.op = "findAmp"
        /\ HitsOf(CcdSeqOf(ret.args.parent), ret.args.ccdId) # {})
    => LET ccds == CcdSeqOf(ret.args.parent)
           hits == HitsOf(ccds, ret.args.ccdId)
           ccd == ccds[CHOOSE i \in hits : \A j \in hits : i <= j]
           amps == AmpHitsOf(ccd, ret.args.ix, ret.args.iy)
       IN  /\ ret.out.status = "ok"
           /\ amps = {} => ret.out.value = None
           /\ amps # {} => ret.out.value \in {ccd.amps[i] : i \in amps}

\* no Ccd of the Id in parent: the loop runs over None
C13_NoCcdRaises ==
    /\ ret.op = "findAmp"
    /\ HitsOf(CcdSeqOf(ret.args.parent), ret.args.ccdId) = {}
    /\ ret.out.status = "raise"
    /\ ret.out.exc = "TypeError"

(***************************************************************************)
(* ExposureInfo: the generic component store of the native class, and the  *)
(* named accessors in front of it.  The store is a map from keys to        *)
(* components; exposureInfo is that map, its domain the keys present.      *)
(***************************************************************************)
MaxInfoCalls == 2   \* calls made on one ExposureInfo

\* no factory call is involved
GeomIdle ==
    /\ geomPolicy = <<>>
    /\ force = FALSE
    /\ ret = NoCall

\* exposureInfoContinued.py line 31
KEY_SUMMARY == "SUMMARY"

\* the KEY_ constants of the native class, by the name of their accessors
NamedKeys ==
    [Wcs |-> "KEY_WCS", Psf |-> "KEY_PSF", PhotoCalib |-> "KEY_PHOTO_CALIB",
     Detector |-> "KEY_DETECTOR", ValidPolygon |-> "KEY_VALID_POLYGON",
     CoaddInputs |-> "KEY_COADD_INPUTS", ApCorrMap |-> "KEY_AP_CORR_MAP",
     TransmissionCurve |-> "KEY_TRANSMISSION_CURVE"]

ComponentKeys ==
    {KEY_SUMMARY, "MISC"} \cup {NamedKeys[n] : n \in DOMAIN NamedKeys}

\* the objects stored as components
ComponentValues == {[obj |-> 1], [obj |-> 2]}

hasComponent(info, key) == key \in DOMAIN info

getComponent(info, key) == IF key \in DOMAIN info THEN info[key] ELSE None

removeComponent(info, key) == [k \in DOMAIN info \ {key} |-> info[k]]

\* storing None under a key leaves the key without a component
setComponent_KeepNone(info, key, value) ==
    [k \in DOMAIN info \cup {key} |-> IF k = key THEN value ELSE info[k]]

setComponent(info, key, value) ==
    IF IsNone(value) THEN removeComponent(info, key)
    ELSE [k \in DOMAIN info \cup {key} |-> IF k = key THEN value ELSE info[k]]

\* exposureInfoContinued.py lines 33-40
getSummary(info) == getComponent(info, "SUMMARY")

setSummary_OtherKey(info, summary) == setComponent(info, "MISC", summary)

setSummary(info, summary) == setComponent(info, "SUMMARY", summary)

hasSummary(info) == hasComponent(info, "SUMMARY")

\* the native accessors getWcs, setWcs, hasWcs, getPsf, ...
getNamed(info, name) == getComponent(info, NamedKeys[name])

setNamed(info, name, value) == setComponent(info, NamedKeys[name], value)

hasNamed(info, name) == hasComponent(info, NamedKeys[name])

SetComponentCall ==
    /\ Len(infoCalls) < MaxInfoCalls
    /\ \E key \in ComponentKeys, value \in ComponentValues \cup {None} :
          /\ exposureInfo' = setComponent(exposureInfo, key, value)
          /\ infoCalls' = Append(infoCalls, [op |-> "setComponent",
                                             key |-> key, value |-> value])
    /\ UNCHANGED exceptInfo

RemoveComponentCall ==
    /\ Len(infoCalls) < MaxInfoCalls
    /\ \E key \in ComponentKeys :
          /\ exposureInfo' = removeComponent(exposureInfo, key)
          /\ infoCalls' = Append(infoCalls, [op |-> "removeComponent",
                                             key |-> key])
    /\ UNCHANGED exceptInfo

SetSummaryCall ==
    /\ Len(infoCalls) < MaxInfoCalls
    /\ \E summary \in ComponentValues \cup {None} :
          /\ exposureInfo' = setSummary(exposureInfo, summary)
          /\ infoCalls' = Append(infoCalls, [op |-> "setSummary",
                                             value |-> summary])
    /\ UNCHANGED exceptInfo

SetNamedCall ==
    /\ Len(infoCalls) < MaxInfoCalls
    /\ \E name \in DOMAIN NamedKeys, value \in ComponentValues \cup {None} :
          /\ exposureInfo' = setNamed(exposureInfo, name, value)
          /\ infoCalls' = Append(infoCalls, [op |-> "setNamed", name |-> name,
                                             value |-> value])
    /\ UNCHANGED exceptInfo

InitInfo ==
    /\ GeomIdle
    /\ NativeIdle

NextInfo ==
    \/ SetComponentCall
    \/ RemoveComponentCall
    \/ SetSummaryCall
    \/ SetNamedCall

SpecInfo == InitInfo /\ [][NextInfo]_vars

\* the calls of the history that are setComponent or removeComponent of key
GenericCallsOn(key) ==
    {i \in 1..Len(infoCalls) :
        /\ infoCalls[i].op \in {"setComponent", "removeComponent"}
        /\ infoCalls[i].key = key}

OnlyGenericCalls ==
    \A i \in 1..Len(infoCalls) :
        infoCalls[i].op \in {"setComponent", "removeComponent"}

\* the last call on key stored a component
LastStored(key) ==
    /\ GenericCallsOn(key) # {}
    /\ LET last == infoCalls[CHOOSE i \in GenericCallsOn(key) :
                                \A j \in GenericCallsOn(key) : j <= i]
       IN  last.op = "setComponent" /\ ~IsNone(last.value)

LastValue(key) ==
    infoCalls[CHOOSE i \in GenericCallsOn(key) :
                 \A j \in GenericCallsOn(key) : j <= i].value

\* C14: after any sequence of setComponent and removeComponent calls, for
\* every key, hasComponent(key) is true exactly when the last call on key
\* was a setComponent of a value other than None; getComponent(key) is then
\* that value, and None when the key is absent (so a removeComponent makes
\* its key absent and leaves what the other keys hold)
C14_ComponentStore ==
    OnlyGenericCalls =>
        \A key \in ComponentKeys :
            /\ hasComponent(exposureInfo, key) <=> LastStored(key)
            /\ LastStored(key) =>
                   getComponent(exposureInfo, key) = LastValue(key)
            /\ ~LastStored(key) => getComponent(exposureInfo, key) = None

\* a component stored and then replaced by None, next to a key never touched
C14_Witness ==
    /\ Len(infoCalls) = 2
    /\ infoCalls[1].op = "setComponent" /\ ~IsNone(infoCalls[1].value)
    /\ infoCalls[2].op = "setComponent" /\ IsNone(infoCalls[2].value)
    /\ infoCalls[1].key = infoCalls[2].key
    /\ ~hasComponent(exposureInfo, infoCalls[1].key)

\* a removeComponent of one key after a setComponent of another
C14_WitnessRemoveOther ==
    /\ Len(infoCalls) = 2
    /\ infoCalls[1].op = "setComponent" /\ ~IsNone(infoCalls[1].value)
    /\ infoCalls[2].op = "removeComponent"
    /\ infoCalls[1].key # infoCalls[2].key
    /\ getComponent(exposureInfo, infoCalls[1].key) = infoCalls[1].value

\* the setComponent or removeComponent call that a call is claimed to
\* stand for
GenericOf(call) ==
    IF call.op = "setSummary"
    THEN [op |-> "setComponent", key |-> KEY_SUMMARY, value |-> call.value]
    ELSE IF call.op = "setNamed"
    THEN [op |-> "setComponent", key |-> NamedKeys[call.name],
          value |-> call.value]
    ELSE call

\* the store after the calls i.. of a history, each made as its generic call
RECURSIVE Replayed(_, _, _)
Replayed(calls, i, info) ==
    IF i > Len(calls) THEN info
    ELSE LET With(call) ==
                 IF call.op = "removeComponent"
                 THEN removeComponent(info, call.key)
                 ELSE setComponent(info, call.key, call.value)
         IN  Replayed(calls, i + 1, With(GenericOf(calls[i])))

\* C15: the named accessors are views of the component store: hasSummary()
\* and getSummary() equal hasComponent and getComponent of KEY_SUMMARY, and
\* a history with setSummary(s) leaves the store that the same history with
\* setComponent(KEY_SUMMARY, s) leaves; likewise for Wcs, Psf, PhotoCalib,
\* Detector, ValidPolygon, CoaddInputs, ApCorrMap and TransmissionCurve
C15_NamedAccessorsAreViews ==
    /\ hasSummary(exposureInfo) = hasComponent(exposureInfo, KEY_SUMMARY)
    /\ getSummary(exposureInfo) = getComponent(exposureInfo, KEY_SUMMARY)
    /\ \A name \in DOMAIN NamedKeys :
          /\ hasNamed(exposureInfo, name)
                = hasComponent(exposureInfo, NamedKeys[name])
          /\ getNamed(exposureInfo, name)
                = getComponent(exposureInfo, NamedKeys[name])
    /\ exposureInfo = Replayed(infoCalls, 1, <<>>)

\* setSummary after a setComponent of another key: the summary is read back
\* through the store
C15_Witness ==
    /\ Len(infoCalls) = 2
    /\ infoCalls[1].op = "setComponent" /\ infoCalls[1].key = "MISC"
    /\ ~IsNone(infoCalls[1].value)
    /\ infoCalls[2].op = "setSummary" /\ ~IsNone(infoCalls[2].value)
    /\ getComponent(exposureInfo, KEY_SUMMARY) = infoCalls[2].value
    /\ hasSummary(exposureInfo)

\* a component stored by setComponent(KEY_WCS) and read by getWcs
C15_WitnessNamed ==
    /\ Len(infoCalls) = 1
    /\ infoCalls[1].op = "setComponent" /\ infoCalls[1].key = NamedKeys.Wcs
    /\ ~IsNone(infoCalls[1].value)
    /\ getNamed(exposureInfo, "Wcs") = infoCalls[1].value

(***************************************************************************)
(* Copies of an Exposure.  An Exposure refers to three pixel planes        *)
(* (image, mask, variance), each a view [buf, lo, hi] of a buffer of the   *)
(* heap, to a metadata map and to an ExposureInfo; a row of pixels stands  *)
(* for the planes.  A deep copy gets buffers and maps of its own, a        *)
(* shallow one refers to those of its source.                              *)
(***************************************************************************)
Width == 2          \* pixels of a plane
MaxPixel == 2       \* values written are 1..MaxPixel, a new plane holds 0
MaxExpCalls == 3    \* calls made through the handles

Planes == {"image", "mask", "variance"}

\* the pixels a view shows
Pixels(h, view) == SubSeq(h[view.buf], view.lo, view.hi)

\* what the caller reads through an Exposure
ReadExposure(h, exp) ==
    [image |-> Pixels(h, exp.image), mask |-> Pixels(h, exp.mask),
     variance |-> Pixels(h, exp.variance), metadata |-> h[exp.metadata],
     info |-> h[exp.info]]

\* Image.set(value), Mask.set(value): every pixel of the view
SetPixels(h, view, value) ==
    [h EXCEPT ![view.buf] =
        [i \in 1..Len(h[view.buf]) |->
            IF i \in view.lo..view.hi THEN value ELSE h[view.buf][i]]]

\* PropertySet.set(name, value)
SetProperty(metadata, name, value) ==
    [k \in DOMAIN metadata \cup {name} |->
        IF k = name THEN value ELSE metadata[k]]

\* ExposureF(width, height): new planes, empty metadata, empty info
NewExposure ==
    [heap |-> <<[i \in 1..Width |-> 0], [i \in 1..Width |-> 0],
                [i \in 1..Width |-> 0], <<>>, <<>>>>,
     exp |-> [image |-> [buf |-> 1, lo |-> 1, hi |-> Width],
              mask |-> [buf |-> 2, lo |-> 1, hi |-> Width],
              variance |-> [buf |-> 3, lo |-> 1, hi |-> Width],
              metadata |-> 4, info |-> 5]]

\* Exposure(src, bbox, PARENT, deep) with deep false: views of the planes
\* of src, its metadata and its info
ShallowCopy(h, src, lo, hi) ==
    LET Sub(view) == [buf |-> view.buf, lo |-> view.lo + lo - 1,
                      hi |-> view.lo + hi - 1]
    IN  [heap |-> h,
         exp |-> [image |-> Sub(src.image), mask |-> Sub(src.mask),
                  variance |-> Sub(src.variance), metadata |-> src.metadata,
                  info |-> src.info]]

\* a deep copy whose mask plane is still that of its source
DeepCopy_SharedMask(h, src, lo, hi) ==
    LET n == Len(h)
        Sub(view) == SubSeq(Pixels(h, view), lo, hi)
        Own(k) == [buf |-> n + k, lo |-> 1, hi |-> hi - lo + 1]
    IN  [heap |-> h \o <<Sub(src.image), Sub(src.mask), Sub(src.variance),
                         h[src.metadata], h[src.info]>>,
         exp |-> [image |-> Own(1),
                  mask |-> [buf |-> src.mask.buf, lo |-> src.mask.lo + lo - 1,
                            hi |-> src.mask.lo + hi - 1],
                  variance |-> Own(3),
                  metadata |-> n + 4, info |-> n + 5]]

\* Exposure(src, bbox, PARENT, deep) with deep true, and clone() with the
\* whole of src as bbox: new buffers holding the pixels of the region, a
\* copy of the metadata and a copy of the info
DeepCopy(h, src, lo, hi) ==
    LET n == Len(h)
        Sub(view) == SubSeq(Pixels(h, view), lo, hi)
        Own(k) == [buf |-> n + k, lo |-> 1, hi |-> hi - lo + 1]
    IN  [heap |-> h \o <<Sub(src.image), Sub(src.mask), Sub(src.variance),
                         h[src.metadata], h[src.info]>>,
         exp |-> [image |-> Own(1), mask |-> Own(2), variance |-> Own(3),
                  metadata |-> n + 4, info |-> n + 5]]

\* the width of an Exposure
WidthOf(exp) == exp.image.hi - exp.image.lo + 1

clone(h, src) == DeepCopy(h, src, 1, WidthOf(src))

\* ExposureInfo(info, True): an ExposureInfo of its own with the same
\* components
CopyInfo_Alias(h, info) == [heap |-> h, info |-> info]

CopyInfo(h, info) == [heap |-> Append(h, h[info]), info |-> Len(h) + 1]

\* the handles the caller holds that refer to an Exposure
ExposureHandles == {t \in {"exp", "expCopy"} : ~IsNone(handles[t])}

\* the ExposureInfos the caller can reach: those of the Exposures, and the
\* copy made of the first
InfoHandles ==
    {handles[t].info : t \in ExposureHandles}
    \cup (IF IsNone(handles.infoCopy) THEN {} ELSE {handles.infoCopy.info})

\* a call through a handle, with what the first Exposure read before it
Called(op, target, args) ==
    [op |-> op, target |-> target, args |-> args,
     before |-> ReadExposure(heap, handles.exp)]

CloneCall ==
    /\ handles.calls < MaxExpCalls
    /\ IsNone(handles.expCopy)
    /\ LET With(c) ==
               /\ heap' = c.heap
               /\ handles' = [handles EXCEPT !.expCopy = c.exp, !.deep = TRUE,
                                             !.calls = @ + 1]
       IN  With(clone(heap, handles.exp))
    /\ expCall' = Called("clone", "exp", <<>>)
    /\ UNCHANGED exceptCopy

FactoryCall ==
    /\ handles.calls < MaxExpCalls
    /\ IsNone(handles.expCopy)
    /\ \E lo \in 1..Width, hi \in 1..Width, deep \in BOOLEAN :
          /\ lo <= hi
          /\ LET With(c) ==
                     /\ heap' = c.heap
                     /\ handles' = [handles EXCEPT !.expCopy = c.exp,
                                                   !.deep = deep,
                                                   !.calls = @ + 1]
             IN  With(IF deep THEN DeepCopy(heap, handles.exp, lo, hi)
                      ELSE ShallowCopy(heap, handles.exp, lo, hi))
          /\ expCall' = Called("Factory", "exp", <<lo, hi, deep>>)
    /\ UNCHANGED exceptCopy

CopyInfoCall ==
    /\ handles.calls < MaxExpCalls
    /\ IsNone(handles.infoCopy)
    /\ LET With(c) ==
               /\ heap' = c.heap
               /\ handles' = [handles EXCEPT !.infoCopy = [info |-> c.info],
                                             !.calls = @ + 1]
       IN  With(CopyInfo(heap, handles.exp.info))
    /\ expCall' = Called("ExposureInfo", "exp", <<TRUE>>)
    /\ UNCHANGED exceptCopy

SetPlaneCall ==
    /\ handles.calls < MaxExpCalls
    /\ \E target \in ExposureHandles, plane \in Planes, value \in 1..MaxPixel :
          /\ heap' = SetPixels(heap, handles[target][plane], value)
          /\ expCall' = Called("set", target, <<plane, value>>)
    /\ handles' = [handles EXCEPT !.calls = @ + 1]
    /\ UNCHANGED exceptCopy

SetMetadataCall ==
    /\ handles.calls < MaxExpCalls
    /\ \E target \in ExposureHandles, value \in 1..MaxPixel :
          /\ heap' = [heap EXCEPT ![handles[target].metadata] =
                         SetProperty(@, "foo", value)]
          /\ expCall' = Called("setMetadata", target, <<"foo", value>>)
    /\ handles' = [handles EXCEPT !.calls = @ + 1]
    /\ UNCHANGED exceptCopy

SetWcsCall ==
    /\ handles.calls < MaxExpCalls
    /\ \E info \in InfoHandles, wcs \in ComponentValues :
          /\ heap' = [heap EXCEPT ![info] = setNamed(@, "Wcs", wcs)]
          /\ expCall' = Called("setWcs", info, <<wcs>>)
    /\ handles' = [handles EXCEPT !.calls = @ + 1]
    /\ UNCHANGED exceptCopy

InitCopy ==
    /\ GeomIdle
    /\ SysIdle
    /\ FilterIdle
    /\ InfoIdle
    /\ RandIdle
    /\ WarpIdle
    /\ MaskIdle
    /\ heap = NewExposure.heap
    /\ handles = [exp |-> NewExposure.exp, expCopy |-> None, deep |-> FALSE,
                  infoCopy |-> None, calls |-> 0]
    /\ expCall = [op |-> "ExposureF"]

NextCopy ==
    \/ CloneCall
    \/ FactoryCall
    \/ CopyInfoCall
    \/ SetPlaneCall
    \/ SetMetadataCall
    \/ SetWcsCall

SpecCopy == InitCopy /\ [][NextCopy]_vars

\* C16: a write to the image, mask, variance or metadata of a deep copy
\* (clone(), or Factory(exp, bbox, PARENT, True)) leaves what the original
\* reads in its image, mask, variance and metadata; setWcs on
\* ExposureInfo(info, True) leaves the Wcs of info
C16_DeepCopyOwnsState ==
    /\ (/\ expCall.op \in {"set", "setMetadata"}
        /\ expCall.target = "expCopy"
        /\ handles.deep)
       => LET now == ReadExposure(heap, handles.exp)
          IN  /\ now.image = expCall.before.image
              /\ now.mask = expCall.before.mask
              /\ now.variance = expCall.before.variance
              /\ now.metadata = expCall.before.metadata
    /\ (/\ expCall.op = "setWcs"
        /\ ~IsNone(handles.infoCopy)
        /\ expCall.target = handles.infoCopy.info)
       => getNamed(heap[handles.exp.info], "Wcs")
             = getNamed(expCall.before.info, "Wcs")

\* the original written, a deep copy of a part of it made, the mask of the
\* copy written: the copy reads the new value, the original the old one
C16_Witness ==
    /\ expCall.op = "set"
    /\ expCall.target = "expCopy"
    /\ handles.deep
    /\ expCall.args[1] = "mask"
    /\ WidthOf(handles.expCopy) < Width
    /\ \A i \in 1..Width : Pixels(heap, handles.exp.mask)[i] = 1
    /\ \A i \in 1..WidthOf(handles.expCopy) :
          Pixels(heap, handles.expCopy.mask)[i] = 2

\* the Wcs of the copy of an ExposureInfo set
C16_WitnessInfo ==
    /\ expCall.op = "setWcs"
    /\ ~IsNone(handles.infoCopy)
    /\ expCall.target = handles.infoCopy.info
    /\ hasNamed(heap[handles.infoCopy.info], "Wcs")
    /\ ~hasNamed(heap[handles.exp.info], "Wcs")

\* the same write through a copy that is not deep
C16_ShallowCopyShares ==
    /\ expCall.op = "set"
    /\ expCall.target = "expCopy"
    /\ ~handles.deep
    /\ ReadExposure(heap, handles.exp) # expCall.before

(***************************************************************************)
(* Random: a generator is its internal state; a draw steps the state and   *)
(* returns a value computed from it; getState() writes the state out as    *)
(* bytes and setState() reads it back.                                     *)
(***************************************************************************)
RandModulus == 8    \* the states of a generator are 0..RandModulus - 1
ByteBase == 4       \* a byte of a saved state holds 0..ByteBase - 1
MaxDraws == 3       \* values drawn and compared

\* the state after a draw
Stepped(state) == (5 * state + 3) % RandModulus

\* uniformInt(n): the value and the generator after the draw
uniformInt(gen, n) ==
    [value |-> Stepped(gen.state) % n, gen |-> [state |-> Stepped(gen.state)]]

\* getState(): the state as bytes, low byte first
getState(gen) == <<gen.state % ByteBase, gen.state \div ByteBase>>

\* setState(bytes)
setState_LowByte(gen, bytes) == [state |-> bytes[1]]

setState(gen, bytes) == [state |-> bytes[1] + ByteBase * bytes[2]]

\* deepCopy(): a generator of its own in the state of the prototype
deepCopy(gen) == [state |-> gen.state]

\* a draw from the prototype: logged as drawn since getState (v1) or since
\* setState (v2), and as drawn since deepCopy (c1)
DrawCall ==
    /\ IsNone(randLog.saved) \/ randLog.restored \/ Len(randLog.v1) < MaxDraws
    /\ randLog.restored => Len(randLog.v2) < Len(randLog.v1)
    /\ ~IsNone(randCopy) => Len(randLog.c1) < MaxDraws
    /\ LET With(d) ==
               /\ rand' = d.gen
               /\ randLog' =
                    [randLog EXCEPT
                       !.v1 = IF ~IsNone(randLog.saved) /\ ~randLog.restored
                              THEN Append(@, d.value) ELSE @,
                       !.v2 = IF randLog.restored
                              THEN Append(@, d.value) ELSE @,
                       !.c1 = IF ~IsNone(randCopy)
                              THEN Append(@, d.value) ELSE @]
       IN  With(uniformInt(rand, RandModulus))
    /\ UNCHANGED <<randCopy, exceptRand>>

\* a draw from the copy
DrawCopyCall ==
    /\ ~IsNone(randCopy)
    /\ Len(randLog.c2) < MaxDraws
    /\ LET With(d) ==
               /\ randCopy' = d.gen
               /\ randLog' = [randLog EXCEPT !.c2 = Append(@, d.value)]
       IN  With(uniformInt(randCopy, RandModulus))
    /\ UNCHANGED <<rand, exceptRand>>

GetStateCall ==
    /\ IsNone(randLog.saved)
    /\ IsNone(randCopy)
    /\ randLog' = [randLog EXCEPT !.saved = [bytes |-> getState(rand)]]
    /\ UNCHANGED <<rand, randCopy, exceptRand>>

SetStateCall ==
    /\ ~IsNone(randLog.saved)
    /\ ~randLog.restored
    /\ IsNone(randCopy)
    /\ rand' = setState(rand, randLog.saved.bytes)
    /\ randLog' = [randLog EXCEPT !.restored = TRUE]
    /\ UNCHANGED <<randCopy, exceptRand>>

DeepCopyCall ==
    /\ IsNone(randCopy)
    /\ IsNone(randLog.saved) \/ randLog.restored
    /\ randCopy' = deepCopy(rand)
    /\ UNCHANGED <<rand, randLog, exceptRand>>

\* Random(algorithm, seed), any seed
InitRand ==
    /\ GeomIdle
    /\ SysIdle
    /\ FilterIdle
    /\ InfoIdle
    /\ CopyIdle
    /\ WarpIdle
    /\ MaskIdle
    /\ rand \in {[state |-> seed] : seed \in 0..(RandModulus - 1)}
    /\ randCopy = None
    /\ randLog = [saved |-> None, restored |-> FALSE, v1 |-> <<>>,
                  v2 |-> <<>>, c1 |-> <<>>, c2 |-> <<>>]

NextRand ==
    \/ DrawCall
    \/ DrawCopyCall
    \/ GetStateCall
    \/ SetStateCall
    \/ DeepCopyCall

SpecRand == InitRand /\ [][NextRand]_vars

\* C17: the values drawn after setState(s) are, one by one, those drawn
\* after s = getState() was taken, whatever was drawn before; the values
\* drawn from a generator that deepCopy() returned are, one by one, those
\* drawn from its prototype
C17_StateRoundTrip ==
    /\ randLog.restored =>
          /\ Len(randLog.v2) <= Len(randLog.v1)
          /\ \A i \in 1..Len(randLog.v2) : randLog.v2[i] = randLog.v1[i]
    /\ \A i \in 1..Len(randLog.c1) :
          i <= Len(randLog.c2) => randLog.c1[i] = randLog.c2[i]

\* MaxDraws values drawn twice, the state saved holding a high byte
C17_Witness ==
    /\ randLog.restored
    /\ Len(randLog.v1) = MaxDraws
    /\ randLog.v2 = randLog.v1
    /\ randLog.saved.bytes[2] # 0
    /\ \E i, j \in 1..MaxDraws : randLog.v1[i] # randLog.v1[j]

\* MaxDraws values drawn from the prototype and from its copy
C17_WitnessCopy ==
    /\ ~IsNone(randCopy)
    /\ Len(randLog.c1) = MaxDraws
    /\ randLog.c2 = randLog.c1

(***************************************************************************)
(* WarpingControl and the warping functions.  A WarpingControl holds the   *)
(* name of its warping kernel and of its mask warping kernel ("" when it   *)
(* has none); a kernel is made from its name, and has a size.              *)
(***************************************************************************)
InvalidParameterError(msg) ==
    [status |-> "raise", exc |-> "InvalidParameterError", msg |-> msg]

\* the names the tests pass; the last two name no kernel
KernelNames == {"bilinear", "lanczos3", "lanczos4", "lanczos", "badname"}

\* makeWarpingKernel(name): the kernel of the name, as its width in pixels
\* (bilinear 2, lanczosN 2N), or the error for a name that names none
makeWarpingKernel(name) ==
    IF name = "bilinear" THEN Return(2)
    ELSE IF name = "lanczos3" THEN Return(6)
    ELSE IF name = "lanczos4" THEN Return(8)
    ELSE InvalidParameterError(<<"cannot make a kernel of the name", name>>)

\* the test that the mask warping kernel is no larger than the warping
\* kernel
MaskKernelFits_Strict(kernel, maskKernel) == maskKernel < kernel

MaskKernelFits(kernel, maskKernel) == maskKernel <= kernel

\* the two kernels of a pair of names tested: the control that holds them,
\* or the error
ControlOf(kernelName, maskKernelName) ==
    LET With(kernel, maskKernel) ==
            IF kernel.status # "ok" THEN kernel
            ELSE IF maskKernelName = ""
            THEN Return([warpingKernelName |-> kernelName,
                         maskWarpingKernelName |-> ""])
            ELSE IF maskKernel.status # "ok" THEN maskKernel
            ELSE IF ~MaskKernelFits(kernel.value, maskKernel.value)
            THEN InvalidParameterError(<<"mask kernel larger than kernel",
                                         kernelName, maskKernelName>>)
            ELSE Return([warpingKernelName |-> kernelName,
                         maskWarpingKernelName |-> maskKernelName])
    IN  With(makeWarpingKernel(kernelName),
             IF maskKernelName = "" THEN None
             ELSE makeWarpingKernel(maskKernelName))

\* WarpingControl(warpingKernelName, maskWarpingKernelName = "")
WarpingControl(kernelName, maskKernelName) ==
    ControlOf(kernelName, maskKernelName)

\* setWarpingKernelName(name)
setWarpingKernelName(control, name) ==
    ControlOf(name, control.maskWarpingKernelName)

\* setMaskWarpingKernelName(name)
setMaskWarpingKernelName(control, name) ==
    ControlOf(control.warpingKernelName, name)

\* a call that makes or changes the control: the control is the new one
\* when the call returns, and the one before when it raises
ControlCalled(op, args, out) ==
    /\ warpCall' = [op |-> op, args |-> args, before |-> warpingControl,
                    out |-> IF out.status = "ok" THEN Return(None) ELSE out]
    /\ warpingControl' = IF out.status = "ok" THEN out.value
                         ELSE warpingControl

WarpingControlCall ==
    /\ \E kernelName \in KernelNames, maskKernelName \in KernelNames \cup {""} :
          ControlCalled("WarpingControl", <<kernelName, maskKernelName>>,
                        WarpingControl(kernelName, maskKernelName))
    /\ UNCHANGED exceptWarp

SetWarpingKernelNameCall ==
    /\ ~IsNone(warpingControl)
    /\ \E name \in KernelNames :
          ControlCalled("setWarpingKernelName", <<name>>,
                        setWarpingKernelName(warpingControl, name))
    /\ UNCHANGED exceptWarp

SetMaskWarpingKernelNameCall ==
    /\ ~IsNone(warpingControl)
    /\ \E name \in KernelNames \cup {""} :
          ControlCalled("setMaskWarpingKernelName", <<name>>,
                        setMaskWarpingKernelName(warpingControl, name))
    /\ UNCHANGED exceptWarp

\* the Exposures the warping functions are handed: an object, the image
\* it holds, and whether it has a Wcs.  Exposure 4 holds the image of 1.
WarpExposures ==
    {[id |-> 1, image |-> 1, hasWcs |-> TRUE],
     [id |-> 2, image |-> 2, hasWcs |-> TRUE],
     [id |-> 3, image |-> 3, hasWcs |-> FALSE],
     [id |-> 4, image |-> 1, hasWcs |-> TRUE]}

WarpImages == {e.image : e \in WarpExposures}

\* warpImage(destImage, destWcs, srcImage, srcWcs, control): the number of
\* good pixels, or the error when the destination is the source
warpImage_InPlace(destImage, srcImage, control) == Return(NativeValue)

warpImage(destImage, srcImage, control) ==
    IF destImage = srcImage
    THEN InvalidParameterError(<<"destImage is srcImage; cannot warp in place">>)
    ELSE Return(NativeValue)

\* warpExposure(destExposure, srcExposure, control)
warpExposure(destExposure, srcExposure, control) ==
    IF ~destExposure.hasWcs
    THEN InvalidParameterError(<<"destExposure has no Wcs">>)
    ELSE IF ~srcExposure.hasWcs
    THEN InvalidParameterError(<<"srcExposure has no Wcs">>)
    ELSE warpImage(destExposure.image, srcExposure.image, control)

WarpExposureCall ==
    /\ ~IsNone(warpingControl)
    /\ \E destExposure \in WarpExposures, srcExposure \in WarpExposures :
          warpCall' = [op |-> "warpExposure",
                       args |-> [dest |-> destExposure, src |-> srcExposure],
                       before |-> warpingControl,
                       out |-> warpExposure(destExposure, srcExposure,
                                            warpingControl)]
    /\ UNCHANGED <<warpingControl, exceptWarp>>

WarpImageCall ==
    /\ ~IsNone(warpingControl)
    /\ \E destImage \in WarpImages, srcImage \in WarpImages :
          warpCall' = [op |-> "warpImage",
                       args |-> [dest |-> destImage, src |-> srcImage],
                       before |-> warpingControl,
                       out |-> warpImage(destImage, srcImage, warpingControl)]
    /\ UNCHANGED <<warpingControl, exceptWarp>>

InitWarp ==
    /\ GeomIdle
    /\ SysIdle
    /\ FilterIdle
    /\ InfoIdle
    /\ CopyIdle
    /\ RandIdle
    /\ MaskIdle
    /\ warpingControl = None
    /\ warpCall = [op |-> "none"]

NextWarp ==
    \/ WarpingControlCall
    \/ SetWarpingKernelNameCall
    \/ SetMaskWarpingKernelNameCall
    \/ WarpExposureCall
    \/ WarpImageCall

SpecWarp == InitWarp /\ [][NextWarp]_vars

\* the kernels in the order of their size
KernelOrder == <<"bilinear", "lanczos3", "lanczos4">>

KernelRank(name) == CHOOSE i \in 1..Len(KernelOrder) : KernelOrder[i] = name

IsKernel(name) == \E i \in 1..Len(KernelOrder) : KernelOrder[i] = name

\* the mask kernel of the name would be larger than the kernel of the name
MaskLarger(kernelName, maskKernelName) ==
    /\ maskKernelName # ""
    /\ KernelRank(maskKernelName) > KernelRank(kernelName)

\* the pair of names that a call asks the control to hold
NamesAsked ==
    IF warpCall.op = "WarpingControl"
    THEN <<warpCall.args[1], warpCall.args[2]>>
    ELSE IF warpCall.op = "setWarpingKernelName"
    THEN <<warpCall.args[1], warpCall.before.maskWarpingKernelName>>
    ELSE <<warpCall.before.warpingKernelName, warpCall.args[1]>>

C18_WitnessEqual ==
    /\ warpCall.op = "setMaskWarpingKernelName"
    /\ warpCall.args[1] = "lanczos3"
    /\ warpCall.out.status = "ok"
    /\ warpingControl.warpingKernelName = "lanczos3"
    /\ warpingControl.maskWarpingKernelName = "lanczos3"

\* C19: warpExposure and warpImage raise InvalidParameterError when the
\* destination is the source, and warpExposure raises it when the source
\* or the destination has no Wcs
C19_WarpErrors ==
    /\ warpCall.op = "warpExposure" =>
          ((\/ warpCall.args.dest.id = warpCall.args.src.id
            \/ ~warpCall.args.dest.hasWcs
            \/ ~warpCall.args.src.hasWcs)
           => /\ warpCall.out.status = "raise"
              /\ warpCall.out.exc = "InvalidParameterError")
    /\ warpCall.op = "warpImage" =>
          (warpCall.args.dest = warpCall.args.src
           => /\ warpCall.out.status = "raise"
              /\ warpCall.out.exc = "InvalidParameterError")

\* an Exposure with a Wcs warped into itself
C19_Witness ==
    /\ warpCall.op = "warpExposure"
    /\ warpCall.args.dest = warpCall.args.src
    /\ warpCall.args.dest.hasWcs
    /\ warpCall.out.status = "raise"

\* a source without a Wcs; and a warp that is not refused
C19_WitnessNoWcs ==
    /\ warpCall.op = "warpExposure"
    /\ warpCall.args.dest.hasWcs
    /\ ~warpCall.args.src.hasWcs
    /\ warpCall.out.status = "raise"

C19_WitnessWarped ==
    /\ warpCall.op = "warpExposure"
    /\ warpCall.out = Return(NativeValue)

\* ---------------------------------------------------------------------
\* Mask: the registry of mask planes (tests/Mask_1.py)

MaxPlanes == 4

PlaneNames == {"CR", "BP", "XCR", "XBP", "P0"}

PlaneIds == 0..(MaxPlanes - 1)

OutOfPlaneSpace == [status |-> "raise", exc |-> "OutOfPlaneSpace"]

NoMaskPlane == [status |-> "raise", exc |-> "NoMaskPlane"]

\* a Mask before any plane is added: every plane of the dictionary empty
NewMask == [dict |-> [i \in PlaneIds |-> ""], numPlanesUsed |-> 0]

FreePlanes(mask) == {i \in DOMAIN mask.dict : mask.dict[i] = ""}

\* getMaskPlane(name): the plane of the name, -1 when it has none
getMaskPlane(mask, name) ==
    IF \E i \in DOMAIN mask.dict : mask.dict[i] = name
    THEN CHOOSE i \in DOMAIN mask.dict : mask.dict[i] = name
    ELSE -1

getNumPlanesUsed(mask) == mask.numPlanesUsed

Least(S) == CHOOSE i \in S : \A j \in S : i <= j

Greatest(S) == CHOOSE i \in S : \A j \in S : j <= i

\* addMaskPlane(name): <<the Mask after the call, what the call returns>>
addMaskPlane_LastFree(mask, name) ==
    IF getMaskPlane(mask, name) >= 0
    THEN <<mask, Return(getMaskPlane(mask, name))>>
    ELSE IF mask.numPlanesUsed < Cardinality(DOMAIN mask.dict)
            /\ FreePlanes(mask) # {}
    THEN <<[dict |-> [mask.dict EXCEPT ![Greatest(FreePlanes(mask))] = name],
            numPlanesUsed |-> mask.numPlanesUsed + 1],
           Return(Greatest(FreePlanes(mask)))>>
    ELSE <<mask, OutOfPlaneSpace>>

addMaskPlane(mask, name) ==
    IF getMaskPlane(mask, name) >= 0
    THEN <<mask, Return(getMaskPlane(mask, name))>>
    ELSE IF mask.numPlanesUsed < Cardinality(DOMAIN mask.dict)
            /\ FreePlanes(mask) # {}
    THEN <<[dict |-> [mask.dict EXCEPT ![Least(FreePlanes(mask))] = name],
            numPlanesUsed |-> mask.numPlanesUsed + 1],
           Return(Least(FreePlanes(mask)))>>
    ELSE <<mask, OutOfPlaneSpace>>

\* removeMaskPlane(name): <<the Mask after the call, what the call returns>>
removeMaskPlane_KeepCount(mask, name) ==
    IF getMaskPlane(mask, name) < 0
    THEN <<mask, NoMaskPlane>>
    ELSE <<[mask EXCEPT !.dict[getMaskPlane(mask, name)] = ""], Return(None)>>

removeMaskPlane(mask, name) ==
    IF getMaskPlane(mask, name) < 0
    THEN <<mask, NoMaskPlane>>
    ELSE <<[dict |-> [mask.dict EXCEPT ![getMaskPlane(mask, name)] = ""],
            numPlanesUsed |-> mask.numPlanesUsed - 1],
           Return(None)>>

\* setUp: the planes CR and BP added to a new Mask
SetUpMask == addMaskPlane(addMaskPlane(NewMask, "CR")[1], "BP")[1]

\* the reading of getNumPlanesUsed() a test keeps, and the planes it has
\* added since and not removed; None once a plane not added since the
\* reading is removed
MarkAfterAdd(name, out) ==
    IF IsNone(maskCall.mark) \/ out.status # "ok"
       \/ getMaskPlane(maskPlanes, name) >= 0
    THEN maskCall.mark
    ELSE [maskCall.mark EXCEPT !.added = @ \cup {name}]

MarkAfterRemove(name, out) ==
    IF IsNone(maskCall.mark) \/ out.status # "ok"
    THEN maskCall.mark
    ELSE IF name \in maskCall.mark.added
    THEN [maskCall.mark EXCEPT !.added = @ \ {name}]
    ELSE None

AddMaskPlaneCall ==
    /\ \E name \in PlaneNames :
          LET With(r) ==
                  /\ maskPlanes' = r[1]
                  /\ maskCall' = [op |-> "addMaskPlane", name |-> name,
                                  before |-> maskPlanes, out |-> r[2],
                                  mark |-> MarkAfterAdd(name, r[2])]
          IN  With(addMaskPlane(maskPlanes, name))
    /\ UNCHANGED exceptMask

RemoveMaskPlaneCall ==
    /\ \E name \in PlaneNames :
          LET With(r) ==
                  /\ maskPlanes' = r[1]
                  /\ maskCall' = [op |-> "removeMaskPlane", name |-> name,
                                  before |-> maskPlanes, out |-> r[2],
                                  mark |-> MarkAfterRemove(name, r[2])]
          IN  With(removeMaskPlane(maskPlanes, name))
    /\ UNCHANGED exceptMask

GetNumPlanesUsedCall ==
    /\ maskCall' = [op |-> "getNumPlanesUsed", name |-> "",
                    before |-> maskPlanes,
                    out |-> Return(getNumPlanesUsed(maskPlanes)),
                    mark |-> [nplane |-> getNumPlanesUsed(maskPlanes),
                              added |-> {}]]
    /\ UNCHANGED <<maskPlanes, exceptMask>>

GetMaskPlaneCall ==
    /\ \E name \in PlaneNames :
          maskCall' = [op |-> "getMaskPlane", name |-> name,
                       before |-> maskPlanes,
                       out |-> Return(getMaskPlane(maskPlanes, name)),
                       mark |-> maskCall.mark]
    /\ UNCHANGED <<maskPlanes, exceptMask>>

InitMask ==
    /\ GeomIdle
    /\ SysIdle
    /\ FilterIdle
    /\ InfoIdle
    /\ CopyIdle
    /\ RandIdle
    /\ WarpIdle
    /\ maskPlanes = SetUpMask
    /\ maskCall = [op |-> "setUp", name |-> "", before |-> NewMask,
                   out |-> Return(None), mark |-> None]

NextMask ==
    \/ AddMaskPlaneCall
    \/ RemoveMaskPlaneCall
    \/ GetNumPlanesUsedCall
    \/ GetMaskPlaneCall

SpecMask == InitMask /\ [][NextMask]_vars

\* the planes in use are the first planes, none free below one in use
Dense(mask) ==
    \A i \in DOMAIN mask.dict :
        mask.dict[i] # "" <=> i < getNumPlanesUsed(mask)

\* the last call added a name that had no plane
AddedNewName ==
    /\ maskCall.op = "addMaskPlane"
    /\ getMaskPlane(maskCall.before, maskCall.name) = -1

\* what the claim says of such a call
ReturnedCount ==
    /\ maskCall.out = Return(getNumPlanesUsed(maskCall.before))
    /\ getNumPlanesUsed(maskPlanes) = getNumPlanesUsed(maskCall.before) + 1

\* every plane added since the reading of the count is removed again
AllRemovedAgain ==
    ~IsNone(maskCall.mark) /\ maskCall.mark.added = {}
    => getNumPlanesUsed(maskPlanes) = maskCall.mark.nplane

C20_WitnessRemoved ==
    /\ maskCall.op = "removeMaskPlane"
    /\ maskCall.out.status = "ok"
    /\ ~IsNone(maskCall.mark)
    /\ maskCall.mark.added = {}
    /\ getNumPlanesUsed(maskCall.before) = maskCall.mark.nplane + 1
    /\ maskCall.mark.nplane = 2

\* a name added while a plane below one in use is free
C20_WitnessGap ==
    /\ AddedNewName
    /\ ~Dense(maskCall.before)
    /\ maskCall.out.status = "ok"
    /\ maskCall.out.value < getNumPlanesUsed(maskCall.before)

\* ---------------------------------------------------------------------
\* CameraSys: equality and hashing (tests/testCameraSys.py)

MaxSysObjects == 3

HashModulus == 4

HashBase == 3

SysNames == {"pupil", "pixels"}

DetectorNames == {"", "det1", "det2"}

\* the arguments of a construction: CameraSys(sysName) or
\* CameraSys(sysName, detectorName)
CameraSysArgs ==
    {<<sysName>> : sysName \in SysNames}
        \cup {<<sysName, detectorName>> :
                 sysName \in SysNames, detectorName \in DetectorNames}

\* the hash of a string
StringHash(name) ==
    IF name = "" THEN 0
    ELSE IF name \in {"pupil", "det1"} THEN 1
    ELSE 2

\* CameraSys(sysName, detectorName = ""): the object of the identity obj
CameraSys_NoDefault(obj, args) ==
    [obj |-> obj, sysName |-> args[1],
     detectorName |-> IF Len(args) > 1 THEN args[2] ELSE "?"]

CameraSys(obj, args) ==
    [obj |-> obj, sysName |-> args[1],
     detectorName |-> IF Len(args) > 1 THEN args[2] ELSE ""]

__eq__(lhs, rhs) ==
    /\ lhs.sysName = rhs.sysName
    /\ lhs.detectorName = rhs.detectorName

__ne__(lhs, rhs) == ~__eq__(lhs, rhs)

__hash___OfObject(cameraSys) == cameraSys.obj % HashModulus

__hash__(cameraSys) ==
    (HashBase * StringHash(cameraSys.sysName)
        + StringHash(cameraSys.detectorName)) % HashModulus

\* set.add: the object joins the set unless the set holds the object or
\* one of the same hash that is equal to it
SetAdd(set, x) ==
    IF \E y \in set : __hash__(y) = __hash__(x)
                      /\ (y.obj = x.obj \/ __eq__(y, x))
    THEN set
    ELSE set \cup {x}

\* two CameraSys constructed and compared
CompareCall ==
    /\ \E args1 \in CameraSysArgs, args2 \in CameraSysArgs :
          LET With(cameraSys, cameraSys2) ==
                  sysCall' = [op |-> "compare",
                              args |-> <<args1, args2>>,
                              eq |-> __eq__(cameraSys, cameraSys2),
                              ne |-> __ne__(cameraSys, cameraSys2),
                              hashes |-> <<__hash__(cameraSys),
                                           __hash__(cameraSys2)>>,
                              built |-> sysCall.built]
          IN  With(CameraSys(0, args1), CameraSys(0 - 1, args2))
    /\ UNCHANGED <<csSet, exceptSys>>

\* a CameraSys constructed and put into the set
AddToSetCall ==
    /\ Len(sysCall.built) < MaxSysObjects
    /\ \E args \in CameraSysArgs :
          LET With(cameraSys) ==
                  /\ csSet' = SetAdd(csSet, cameraSys)
                  /\ sysCall' = [op |-> "set.add",
                                 args |-> <<args>>,
                                 eq |-> FALSE, ne |-> FALSE,
                                 hashes |-> <<__hash__(cameraSys)>>,
                                 built |-> Append(sysCall.built, args)]
          IN  With(CameraSys(Len(sysCall.built) + 1, args))
    /\ UNCHANGED exceptSys

InitSys ==
    /\ GeomIdle
    /\ InfoIdle
    /\ CopyIdle
    /\ RandIdle
    /\ WarpIdle
    /\ MaskIdle
    /\ FilterIdle
    /\ csSet = {}
    /\ sysCall = [op |-> "none", args |-> <<>>, eq |-> FALSE, ne |-> FALSE,
                  hashes |-> <<>>, built |-> <<>>]

NextSys ==
    \/ CompareCall
    \/ AddToSetCall

SpecSys == InitSys /\ [][NextSys]_vars

\* the (sysName, detectorName) pair that the arguments of a construction
\* name, no detector name standing for the empty one
PairOf(args) == <<args[1], IF Len(args) > 1 THEN args[2] ELSE "">>

\* C21: two CameraSys are equal exactly when their system names and their
\* detector names are equal (no detector name given being the empty
\* name), != is the negation of ==, equal values have the same hash, and
\* a set built from CameraSys holds one element for each distinct
\* (sysName, detectorName) pair put into it
C21_EqualityAndHash ==
    /\ sysCall.op = "compare" =>
          /\ sysCall.eq <=> PairOf(sysCall.args[1]) = PairOf(sysCall.args[2])
          /\ sysCall.ne <=> ~sysCall.eq
          /\ sysCall.eq => sysCall.hashes[1] = sysCall.hashes[2]
    /\ Cardinality(csSet)
          = Cardinality({PairOf(sysCall.built[i]) :
                            i \in 1..Len(sysCall.built)})
    /\ \A i \in 1..Len(sysCall.built) :
          \E y \in csSet : <<y.sysName, y.detectorName>>
                              = PairOf(sysCall.built[i])

\* testHashing: (pixels, det1) twice and (pixels, det2) in a set of two
C21_Witness ==
    /\ sysCall.op = "set.add"
    /\ Len(sysCall.built) = 3
    /\ sysCall.built[1] = <<"pixels", "det1">>
    /\ sysCall.built[2] = <<"pixels", "det1">>
    /\ sysCall.built[3] = <<"pixels", "det2">>
    /\ Cardinality(csSet) = 2

\* CameraSys(sysName) compared equal to CameraSys(sysName, "")
C21_WitnessNoDetector ==
    /\ sysCall.op = "compare"
    /\ sysCall.args = <<<<"pupil">>, <<"pupil", "">>>>
    /\ sysCall.eq
    /\ ~sysCall.ne

\* two values that are not equal and have the same hash, both in the set
C21_WitnessCollision ==
    \E x \in csSet, y \in csSet :
        /\ __ne__(x, y)
        /\ __hash__(x) = __hash__(y)

\* ---------------------------------------------------------------------
\* Filter: the deprecation of its constructor (image/filterContinued.py)

MaxFilterCalls == 3

MaxCallers == 2

\* the lines of the callers that construct a Filter
Callers == 1..MaxCallers

\* the actions of the warnings filter that FutureWarning can meet
FilterActions == {"default", "always", "ignore", "error"}

FilterMessage == "Replaced by FilterLabel. Will be removed after v23."

FutureWarning(msg) ==
    [status |-> "raise", exc |-> "FutureWarning", msg |-> msg]

NotFoundError == [status |-> "raise", exc |-> "NotFoundError"]

ArgumentError == [status |-> "raise", exc |-> "TypeError"]

\* the filter names defined
DefinedFilters == {"r", "g"}

\* the positional and the keyword arguments of a construction
FilterArgs == {<<>>, <<"r">>, <<"g">>, <<"x">>, <<"x", TRUE>>}

FilterKwargs == {{}, {<<"force", TRUE>>}, {<<"force", FALSE>>}}

\* the native initializer, Filter(name, force=False): the Filter of the
\* name, the unknown Filter for no name or for an undefined name with
\* force, else an error
_init(args, kwargs) ==
    LET forceGiven == \E kw \in kwargs : kw[1] = "force"
        forceOf == IF Len(args) > 1 THEN args[2]
                   ELSE <<"force", TRUE>> \in kwargs
    IN  IF Len(args) > 1 /\ forceGiven THEN ArgumentError
        ELSE IF Len(args) = 0
        THEN IF forceGiven THEN ArgumentError
             ELSE Return([name |-> "_unknown_", id |-> 0 - 1])
        ELSE IF args[1] \in DefinedFilters
        THEN Return([name |-> args[1],
                     id |-> IF args[1] = "r" THEN 0 ELSE 1])
        ELSE IF forceOf
        THEN Return([name |-> "_unknown_", id |-> 0 - 1])
        ELSE NotFoundError

\* warnings.warn(message, category, stacklevel=2) called from a line of
\* the caller: the warnings module after it, and how the call ends
warn(warnings, message, category, caller) ==
    IF warnings.action = "error"
    THEN [warnings |-> warnings,
          out |-> [status |-> "raise", exc |-> category, msg |-> message]]
    ELSE IF warnings.action = "ignore"
    THEN [warnings |-> warnings, out |-> Return(None)]
    ELSE IF warnings.action = "default" /\ caller \in warnings.registry
    THEN [warnings |-> warnings, out |-> Return(None)]
    ELSE [warnings |->
              [warnings EXCEPT
                  !.registry = IF warnings.action = "default"
                               THEN @ \cup {caller} ELSE @,
                  !.shown = Append(@, <<category, message, caller>>)],
          out |-> Return(None)]

\* Filter.__init__(self, *args, **kwargs): the steps it takes, the
\* arguments the native initializer gets, and how the construction ends
__init___NoKwargs(warnings, args, kwargs, caller) ==
    LET With(w) ==
            IF w.out.status = "raise"
            THEN [warnings |-> w.warnings, events |-> <<"warn">>,
                  initArgs |-> None, out |-> w.out]
            ELSE [warnings |-> w.warnings, events |-> <<"warn", "_init">>,
                  initArgs |-> [args |-> args, kwargs |-> {}],
                  out |-> _init(args, {})]
    IN  With(warn(warnings, FilterMessage, "FutureWarning", caller))

__init__(warnings, args, kwargs, caller) ==
    LET With(w) ==
            IF w.out.status = "raise"
            THEN [warnings |-> w.warnings, events |-> <<"warn">>,
                  initArgs |-> None, out |-> w.out]
            ELSE [warnings |-> w.warnings, events |-> <<"warn", "_init">>,
                  initArgs |-> [args |-> args, kwargs |-> kwargs],
                  out |-> _init(args, kwargs)]
    IN  With(warn(warnings, FilterMessage, "FutureWarning", caller))

\* a Filter constructed from a line of a caller
FilterCall ==
    /\ filterCall.calls < MaxFilterCalls
    /\ \E args \in FilterArgs, kwargs \in FilterKwargs, caller \in Callers :
          LET With(r) ==
                  /\ warningsState' = r.warnings
                  /\ filterCall' = [op |-> "Filter", args |-> args,
                                    kwargs |-> kwargs, caller |-> caller,
                                    before |-> warningsState,
                                    events |-> r.events,
                                    initArgs |-> r.initArgs,
                                    out |-> r.out,
                                    calls |-> filterCall.calls + 1]
          IN  With(__init__(warningsState, args, kwargs, caller))
    /\ UNCHANGED exceptFilter

\* warnings.simplefilter(action), or -W action on the command line
SimpleFilterCall ==
    /\ \E action \in FilterActions :
          /\ action # warningsState.action
          /\ warningsState' = [warningsState EXCEPT !.action = action]
    /\ filterCall' = [filterCall EXCEPT !.op = "simplefilter"]
    /\ UNCHANGED exceptFilter

InitFilter ==
    /\ GeomIdle
    /\ InfoIdle
    /\ CopyIdle
    /\ RandIdle
    /\ WarpIdle
    /\ MaskIdle
    /\ SysIdle
    /\ warningsState = [action |-> "default", registry |-> {},
                        shown |-> <<>>]
    /\ filterCall = [op |-> "none", args |-> <<>>, kwargs |-> {},
                     caller |-> 1, before |-> warningsState,
                     events |-> <<>>, initArgs |-> None,
                     out |-> Return(None), calls |-> 0]

NextFilter ==
    \/ FilterCall
    \/ SimpleFilterCall

SpecFilter == InitFilter /\ [][NextFilter]_vars

\* the construction issued the warning once, before anything else
WarnedFirst ==
    /\ Len(filterCall.events) >= 1
    /\ filterCall.events[1] = "warn"
    /\ \A i \in 2..Len(filterCall.events) : filterCall.events[i] # "warn"

\* the native initializer ran after it with the arguments of the
\* construction, and the construction ended as the initializer alone does
ThenInitialized ==
    /\ filterCall.events = <<"warn", "_init">>
    /\ filterCall.initArgs = [args |-> filterCall.args,
                              kwargs |-> filterCall.kwargs]
    /\ filterCall.out = _init(filterCall.args, filterCall.kwargs)

\* C22 as stated: every construction of Filter first issues the
\* FutureWarning once and then runs the native initializer with the same
\* positional and keyword arguments, ending as it does without the patch
C22_WarnsThenInitializes ==
    filterCall.op = "Filter" => WarnedFirst /\ ThenInitialized

\* C22 amended: every construction first issues the FutureWarning once;
\* unless the warnings filter turns it into an exception, the native
\* initializer then runs with the same arguments and the construction
\* ends as without the patch; with the filter action "error" the
\* construction raises FutureWarning and the initializer does not run
C22_WarnsThenInitializesUnlessError ==
    filterCall.op = "Filter" =>
        /\ WarnedFirst
        /\ IF filterCall.before.action = "error"
           THEN /\ filterCall.events = <<"warn">>
                /\ filterCall.out = FutureWarning(FilterMessage)
                /\ warningsState = filterCall.before
           ELSE ThenInitialized

\* Filter("x", force=True) constructed under the default filter
C22_Witness ==
    /\ filterCall.op = "Filter"
    /\ filterCall.before.action = "default"
    /\ filterCall.args = <<"x">>
    /\ filterCall.kwargs = {<<"force", TRUE>>}
    /\ filterCall.events = <<"warn", "_init">>
    /\ filterCall.out.status = "ok"
    /\ Len(warningsState.shown) = 1

\* a construction under the filter action "error"
C22_WitnessError ==
    /\ filterCall.op = "Filter"
    /\ filterCall.before.action = "error"
    /\ filterCall.out = FutureWarning(FilterMessage)

\* a second construction from the same line, which shows nothing new
C22_WitnessShownOnce ==
    /\ filterCall.op = "Filter"
    /\ filterCall.before.action = "default"
    /\ filterCall.caller \in filterCall.before.registry
    /\ warningsState.shown = filterCall.before.shown
    /\ filterCall.events = <<"warn", "_init">>

\* ---------------------------------------------------------------------
\* makeRaft on Rafts that are not filled, and on Ccd entries outside the
\* Raft (lines 416-446)

MaxIndex == 1

\* Ccd entries of ptype "B" at the indexes around a Raft
FillEntries ==
    {CcdEntry(2 + c + r, "C2", "B", c, r) :
        c \in (0 - 1)..MaxIndex, r \in 0..MaxIndex}

\* Raft policies of one column or one row, with one or two Ccd entries at
\* different indexes
FillRafts ==
    {[name |-> "R0", serial |-> 0, nCol |-> shape[1], nRow |-> shape[2],
      Ccd |-> ccds] :
        shape \in {<<1, 1>>, <<2, 1>>, <<1, 2>>},
        ccds \in {<<e>> : e \in FillEntries}
                 \cup {pair \in FillEntries \X FillEntries :
                          pair[1].index # pair[2].index}}

FillPolicies ==
    {GeomPolicy(<<CameraRaft(0, "R0", 0, 0)>>, <<raftPol>>,
                <<CcdPolA(2, <<AmpEntry(0, 0), AmpEntry(1, 0)>>), CcdPolB>>,
                ElectronicPol0, DefectsPol0) :
        raftPol \in FillRafts}

InitFill ==
    /\ geomPolicy \in FillPolicies
    /\ force = FALSE
    /\ ret = NoCall
    /\ NativeIdle

NextFill ==
    \/ SetForce
    \/ MakeRaftCall
    \/ Discard

SpecFill == InitFill /\ [][NextFill]_vars

\* the Ccd entry lies in the Raft of the policy
EntryInRaft(raftPol, ccdPol) ==
    /\ 0 <= ccdPol.index[1] /\ ccdPol.index[1] < raftPol.nCol
    /\ 0 <= ccdPol.index[2] /\ ccdPol.index[2] < raftPol.nRow

\* the indexes of the Ccd entries that lie in the Raft, in their order
RECURSIVE IndexesInRaft(_, _)
IndexesInRaft(raftPol, i) ==
    IF i > Len(raftPol.Ccd) THEN <<>>
    ELSE (IF EntryInRaft(raftPol, raftPol.Ccd[i])
          THEN <<raftPol.Ccd[i].index>> ELSE <<>>)
         \o IndexesInRaft(raftPol, i + 1)

\* what the claim says of a call of makeRaft on the Raft policy
IndexErrorsAndUnfilled(raftPol) ==
    LET allIn == \A i \in 1..Len(raftPol.Ccd) :
                     EntryInRaft(raftPol, raftPol.Ccd[i])
    IN  /\ (~ret.force /\ ~allIn)
           => /\ ret.out.status = "raise"
              /\ ret.out.exc = "RuntimeError"
        /\ (ret.force /\ ret.out.status = "ok")
           => [i \in 1..Len(ret.out.value.detectors) |->
                  ret.out.value.detectors[i].index]
              = IndexesInRaft(raftPol, 1)
        /\ (Len(raftPol.Ccd) # raftPol.nCol * raftPol.nRow
            /\ (allIn \/ ret.force))
           => ret.out.status = "ok"

\* C23 as stated: makeRaft raises RuntimeError for a Ccd entry whose index
\* is outside the Raft when force is false, with force skips the entry and
\* adds no Ccd for it, and builds a Raft whose number of Ccd entries is
\* not nCol*nRow without error
C23_IndexErrorsAndUnfilled ==
    ret.op = "makeRaft" => IndexErrorsAndUnfilled(geomPolicy.Raft[1])

\* the same for the calls that hand makeRaft no raftInfo
C23_IndexErrorsAndUnfilledWithoutInfo ==
    (ret.op = "makeRaft" /\ IsNone(ret.args.info))
    => IndexErrorsAndUnfilled(geomPolicy.Raft[1])

\* a Raft of two columns whose only Ccd entry is at (1, 0), built with a
\* raftInfo: the guess of the gutter reads xGutter before it is bound
C23_UnfilledRaises ==
    /\ ret.op = "makeRaft"
    /\ ~IsNone(ret.args.info)
    /\ geomPolicy.Raft[1].nCol = 2
    /\ Len(geomPolicy.Raft[1].Ccd) = 1
    /\ geomPolicy.Raft[1].Ccd[1].index = <<1, 0>>
    /\ ret.out = NameError("xGutter")

\* the same Raft built without a raftInfo
C23_UnfilledBuilt ==
    /\ ret.op = "makeRaft"
    /\ IsNone(ret.args.info)
    /\ geomPolicy.Raft[1].nCol = 2
    /\ Len(geomPolicy.Raft[1].Ccd) = 1
    /\ geomPolicy.Raft[1].Ccd[1].index = <<1, 0>>
    /\ ret.out.status = "ok"
    /\ Len(ret.out.value.detectors) = 1

\* an entry outside the Raft refused without force, and skipped with force
C23_OutsideRaises ==
    /\ ret.op = "makeRaft"
    /\ ~ret.force
    /\ geomPolicy.Raft[1].nCol = 1
    /\ geomPolicy.Raft[1].Ccd[Len(geomPolicy.Raft[1].Ccd)].index = <<1, 0>>
    /\ ret.out.status = "raise"
    /\ ret.out.exc = "RuntimeError"

C23_OutsideSkipped ==
    /\ ret.op = "makeRaft"
    /\ ret.force
    /\ Len(geomPolicy.Raft[1].Ccd) = 2
    /\ geomPolicy.Raft[1].Ccd[2].index = <<0 - 1, 0>>
    /\ ret.out.status = "ok"
    /\ Len(ret.out.value.detectors) = 1
    /\ ret.stderr # <<>>

====
